---- MODULE Spec2Model ----
(***************************************************************************)
(* Model of the CentAgent monitoring pipeline (internal/monitor):          *)
(* the Retention Enforcer, the Log Collector, the Stats Sampler and the    *)
(* Manager, together with the persistence operations they call             *)
(* (internal/storage).  Each subsystem has its own specification; the      *)
(* variables of the other subsystems are parked while one is explored.     *)
(* Time is counted in hours.                                               *)
(***************************************************************************)
EXTENDS Integers, Sequences, FiniteSets, TLC

VARIABLES
    \* ---- Retention Enforcer (retention.go) and the store it prunes
    rworkers,   \* the workers setting, RetentionCollector.cfg.Workers before
                \* withDefaults
    rcfg,       \* RetentionCollector.cfg after withDefaults
    statRows,   \* table container_stats
    logRows,    \* table container_logs
    stats0,     \* history: container_stats when the pass started
    logs0,      \* history: container_logs when the pass started
    rctxDone,   \* ctx of runOnce is cancelled
    rmain,      \* position of runOnce: "dispatch", "wait", "returned"
    rnext,      \* index of the next task runOnce sends on jobs
    raborted,   \* runOnce left its dispatch loop through <-ctx.Done()
    rwork,      \* the pass's worker goroutines: how many are blocked in
                \* "range jobs", the tasks the others run, how many exited
    rerrs,      \* channel errs (buffered, len(tasks))
    rresult,    \* what runOnce returned
    ronerr,     \* calls of cfg.OnError made by runOnce
    rfaults,    \* storage calls of the pass that returned an error
    rrun,       \* what RetentionCollector.Run returned ("none" while it runs)
    rpass,      \* number of the pass Run is in, or has last made
    rtask,      \* history, per task of the pass: the storage calls it has
                \* issued (calls) and how often a worker has finished it (runs)
    \* ---- Log Collector (logs.go)
    lcfg,       \* LogCollector.cfg after withDefaults
    lctxDone,   \* ctx of LogCollector.Run is cancelled
    lmain,      \* position of Run: "list", "reconcile", "events", "backoff",
                \* "resubscribe", "waitWriter", "returned"
    lrecon,     \* running workloads reconcileRunning has still to start
    tailers,    \* LogCollector.tailers: workload id -> tailer (0: no entry)
    gor,        \* the tailer goroutines started so far, in order
    logCh,      \* LogCollector.logCh
    lbuf,       \* buf of writeLoop
    lstore,     \* records written by InsertContainerLogs
    lwriter,    \* writeLoop: running or returned, and what it returned
    lcb,        \* the cfg.OnError call made by the last step ("" if none)
    lnextRec,   \* number of the next line a scanner reads
    lsnap,      \* history: records in logCh or buf when ctx was cancelled
    lfaults,    \* InsertContainerLogs calls that returned an error
    lissued,    \* history: the InsertContainerLogs calls of the writer, in
                \* order: how many records, and which case of the select
                \* flushed ("size", "tick", "done")
    lresult,    \* what Run returned
    \* ---- Stats Sampler (stats.go)
    scfg,       \* StatsCollector.cfg after withDefaults
    sctxDone,   \* ctx of StatsCollector.Run is cancelled
    smain,      \* position of Run: "list", "enqueue", "loop", "waitWorkers",
                \* "waitWriter", "returned"
    spending,   \* enqueueOnce: the listed workloads not yet sent on jobs
    stick,      \* number of the tick being (or last) enqueued
    jobs,       \* channel jobs: its queue and whether it is closed
    results,    \* channel results: its queue and whether it is closed
    swork,      \* the workers: how many are in their select, what the
                \* others do, how many returned
    sbuf,       \* buf of writeLoop
    sstore,     \* the batches InsertContainerStats has written, in order
    swriter,    \* writeLoop: running or returned, and what it returned
    scb,        \* the cfg.OnError call made by the last step ("" if none)
    ssnap,      \* history: samples in results or buf when ctx was cancelled
    sfaults,    \* InsertContainerStats calls that returned an error
    sissued,    \* history: the InsertContainerStats calls of the writer, in
                \* order: how many samples, and which case of the select
                \* flushed ("size", "tick", "closed", "done")
    sresult,    \* what Run returned
    \* ---- Manager (manager.go)
    mcfg,       \* cfg.Stats.Enabled, cfg.Logs.Enabled, and whether WithStats
                \* and WithLogs were given a collector
    started,    \* Manager.started
    mcancel,    \* Manager.cancel: "nil" or "set"
    mctxDone,   \* runCtx is cancelled
    runErr,     \* Manager.runErr ("nil" if none)
    calls,      \* the calls of Start: position, return value
    gos,        \* the supervised goroutines Start has spawned, in order
    morder,     \* history: the goroutines in the order they took runErrMu
    mwait,      \* what Wait returned ("none" if it has not)
    \* ---- the context the caller gives to the pipelines
    ctxErr,     \* what Err() of that context returns once it is done:
                \* "canceled" or "deadline"
    \* ---- one fetch of a workload's statistics (stats.go)
    fcfg,       \* StatsCollector.cfg after withDefaults
    fresp,      \* the container.StatsResponse decoded from the engine's reply
    fstat,      \* what defaultFetchStats returned
    \* ---- the audit table and its pruning (internal/storage, cli/storage.go)
    audit,      \* table audit_records
    audit0,     \* history: audit_records before the call
    akeep,      \* flag --keep of "storage prune-audit"
    aresult     \* rows affected (-1 before the call, -2 if it failed)

varsR == <<rworkers, rcfg, statRows, logRows, stats0, logs0, rctxDone, rmain, rnext,
           raborted, rwork, rerrs, rresult, ronerr, rfaults, rrun, rpass,
           rtask>>

varsL == <<lcfg, lctxDone, lmain, lrecon, tailers, gor, logCh, lbuf, lstore,
           lwriter, lcb, lnextRec, lsnap, lfaults, lissued, lresult>>

varsS == <<scfg, sctxDone, smain, spending, stick, jobs, results, swork, sbuf,
           sstore, swriter, scb, ssnap, sfaults, sissued, sresult>>

varsM == <<mcfg, started, mcancel, mctxDone, runErr, calls, gos, morder, mwait>>

varsC == <<ctxErr>>

varsF == <<fcfg, fresp, fstat>>

varsA == <<audit, audit0, akeep, aresult>>

vars == <<varsR, varsL, varsS, varsM, varsC, varsF, varsA>>

----------------------------------------------------------------------------
(* Bounds of the model *)

\* arbitrary rows seeded into container_stats beside the reference rows
MaxStatRows == 1
\* arbitrary rows seeded into container_logs beside the reference rows
MaxLogRows == 1
\* storage calls that may fail during one retention pass or one Run
MaxFaults == 1
\* tailer goroutines one Run of the Log Collector starts
MaxTailers == 2
\* log lines the workloads emit during one Run
MaxLines == 3
\* LogConfig.QueueSize of the explored runs
LQueueSize == 1
\* LogConfig.BatchSize of the explored runs
LBatchSize == 2
\* interval ticks of the Stats Sampler on which workloads are listed
MaxTicks == 2
\* StatsConfig.QueueSize of the explored runs
SQueueSize == 1
\* StatsConfig.BatchSize of the explored runs
SBatchSize == 2
\* runtime.NumCPU() of the explored runs
NumCPU == 2
\* passes of the Retention Enforcer: the one Run starts with, then ticks
MaxPasses == 2
\* concurrent calls of Manager.Start
MaxStartCalls == 3

----------------------------------------------------------------------------
(* Retention: configuration *)

\* time.Now() of the pass, in hours since the epoch of the model
Now == 200

HoursKeepAll == 12
HoursKeepUntil == 120
DefaultBatchRows == 500
MaxBatchRows == 900
DefaultRetentionWorkers == 2
defaultDeleteLimit == 500
maxDeleteLimit == 900

\* variant: keep_tier2_until stays as configured
RaiseToKeepAll_asConfigured(until, keepAll) == until
\* withDefaults: keep_tier2_until below keep_all is raised to keep_all
RaiseToKeepAll(until, keepAll) == IF until < keepAll THEN keepAll ELSE until

RetentionWithDefaults(c) ==
    LET workers   == IF c.Workers <= 0 THEN DefaultRetentionWorkers ELSE c.Workers
        batch0    == IF c.BatchRows <= 0 THEN DefaultBatchRows ELSE c.BatchRows
        batch     == IF batch0 > MaxBatchRows THEN MaxBatchRows ELSE batch0
        sKeepAll  == IF c.Stats.KeepAll <= 0 THEN HoursKeepAll ELSE c.Stats.KeepAll
        sUntil0   == IF c.Stats.KeepAnomalyUntil <= 0 THEN HoursKeepUntil
                     ELSE c.Stats.KeepAnomalyUntil
        sUntil    == RaiseToKeepAll(sUntil0, sKeepAll)
        cpuHigh   == IF c.Stats.CPUHigh < 0 THEN 0 ELSE c.Stats.CPUHigh
        memHigh   == IF c.Stats.MemHigh < 0 THEN 0 ELSE c.Stats.MemHigh
        lKeepAll  == IF c.Logs.KeepAll <= 0 THEN HoursKeepAll ELSE c.Logs.KeepAll
        lUntil0   == IF c.Logs.KeepImportantUntil <= 0 THEN HoursKeepUntil
                     ELSE c.Logs.KeepImportantUntil
        lUntil    == RaiseToKeepAll(lUntil0, lKeepAll)
    IN  [Workers   |-> workers,
         BatchRows |-> batch,
         Stats     |-> [KeepAll |-> sKeepAll, KeepAnomalyUntil |-> sUntil,
                        CPUHigh |-> cpuHigh, MemHigh |-> memHigh],
         Logs      |-> [KeepAll |-> lKeepAll, KeepImportantUntil |-> lUntil,
                        KeepLevels |-> c.Logs.KeepLevels,
                        KeepSources |-> c.Logs.KeepSources]]

normalizeDeleteLimit(v) ==
    IF v <= 0 THEN defaultDeleteLimit
    ELSE IF v > maxDeleteLimit THEN maxDeleteLimit ELSE v

----------------------------------------------------------------------------
(* Persistence: the bounded deletes of internal/storage *)

\* "ORDER BY id ASC LIMIT n" over the selected rows
\* variant: the limit is not applied
FirstByID_unlimited(S, n) == S
FirstByID(S, n) == {r \in S : Cardinality({q \in S : q.id < r.id}) < n}

DeleteContainerStatsBeforeLimited(rows, before, limit) ==
    FirstByID({r \in rows : r.collected_at < before}, normalizeDeleteLimit(limit))

StatsNonAnomalyWhere(r, from, to, cpuHigh, memHigh) ==
    /\ r.collected_at >= from /\ r.collected_at < to
    /\ (cpuHigh > 0 => r.cpu_percent < cpuHigh)
    /\ (memHigh > 0 => r.mem_percent < memHigh)

DeleteContainerStatsNonAnomalyInRangeLimited(rows, from, to, cpuHigh, memHigh, limit) ==
    IF ~(to > from) THEN {}
    ELSE FirstByID({r \in rows : StatsNonAnomalyWhere(r, from, to, cpuHigh, memHigh)},
                   normalizeDeleteLimit(limit))

DeleteContainerLogsBeforeLimited(rows, before, limit) ==
    FirstByID({r \in rows : r.timestamp < before}, normalizeDeleteLimit(limit))

LogsUnimportantWhere(r, from, to, keepLevels, keepSources) ==
    /\ r.timestamp >= from /\ r.timestamp < to
    /\ (keepLevels # {} => r.level \notin keepLevels)
    /\ (keepSources # {} => r.source \notin keepSources)

DeleteContainerLogsUnimportantInRangeLimited(rows, from, to, keepLevels, keepSources, limit) ==
    IF ~(to > from) THEN {}
    ELSE FirstByID({r \in rows : LogsUnimportantWhere(r, from, to, keepLevels, keepSources)},
                   normalizeDeleteLimit(limit))

----------------------------------------------------------------------------
(* Retention: one pass, RetentionCollector.runOnce *)

\* variant: the tier-1 range of stats reaches up to now
statsCutAll_upToNow == Now
statsCutAll == Now - rcfg.Stats.KeepAll
statsCutAnomaly == Now - rcfg.Stats.KeepAnomalyUntil
logsCutAll == Now - rcfg.Logs.KeepAll
logsCutImportant == Now - rcfg.Logs.KeepImportantUntil

\* the tasks in the order runOnce appends them
TaskStatsBefore == 1
TaskStatsRange == 2
TaskLogsBefore == 3
TaskLogsRange == 4
NumTasks == 4

\* variant: one worker per task, whatever the setting
CapWorkers_onePerTask(w, n) == n
\* if workers > len(tasks) { workers = len(tasks) }
CapWorkers(w, n) == IF w > n THEN n ELSE w

\* workers := min(cfg.Workers, len(tasks)), at least 1
PassWorkers ==
    LET w == CapWorkers(rcfg.Workers, NumTasks)
    IN  IF w <= 0 THEN 1 ELSE w

\* the tier-1 tasks return at once when the range is empty
RangeIsEmpty(t) ==
    \/ t = TaskStatsRange /\ ~(statsCutAll > statsCutAnomaly)
    \/ t = TaskLogsRange /\ ~(logsCutAll > logsCutImportant)

\* the rows one storage call of task t deletes
BatchOf(t) ==
    CASE t = TaskStatsBefore ->
            DeleteContainerStatsBeforeLimited(statRows, statsCutAnomaly, rcfg.BatchRows)
      [] t = TaskStatsRange ->
            DeleteContainerStatsNonAnomalyInRangeLimited(statRows, statsCutAnomaly,
                statsCutAll, rcfg.Stats.CPUHigh, rcfg.Stats.MemHigh, rcfg.BatchRows)
      [] t = TaskLogsBefore ->
            DeleteContainerLogsBeforeLimited(logRows, logsCutImportant, rcfg.BatchRows)
      [] t = TaskLogsRange ->
            DeleteContainerLogsUnimportantInRangeLimited(logRows, logsCutImportant,
                logsCutAll, rcfg.Logs.KeepLevels, rcfg.Logs.KeepSources, rcfg.BatchRows)

\* variant: a delete loop issues a single call
LoopEnds_afterOneCall(affected) == TRUE
\* a delete loop ends when a call affected no row
LoopEnds(affected) == affected = 0

\* runOnce: case jobs <- t, received by a worker blocked in "range jobs"
RDispatch ==
    /\ rmain = "dispatch" /\ rnext <= NumTasks
    /\ rwork.idle > 0
    /\ rwork' = [rwork EXCEPT !.idle = @ - 1, !.jobs = @ \cup {rnext}]
    /\ rnext' = rnext + 1
    /\ UNCHANGED <<rworkers, rcfg, statRows, logRows, stats0, logs0, rctxDone, rmain,
                   raborted, rerrs, rresult, ronerr, rfaults,
                   rrun, rpass, rtask, varsL, varsS, varsM,
                   varsC, varsF, varsA>>

\* runOnce: case <-ctx.Done() of the dispatch loop: close(jobs)
RDispatchCancelled ==
    /\ rmain = "dispatch" /\ rnext <= NumTasks
    /\ rctxDone
    /\ rmain' = "wait" /\ raborted' = TRUE
    /\ UNCHANGED <<rworkers, rcfg, statRows, logRows, stats0, logs0, rctxDone, rnext,
                   rwork, rerrs, rresult, ronerr, rfaults,
                   rrun, rpass, rtask, varsL, varsS, varsM,
                   varsC, varsF, varsA>>

\* runOnce: every task was sent: close(jobs)
RCloseJobs ==
    /\ rmain = "dispatch" /\ rnext > NumTasks
    /\ rmain' = "wait"
    /\ UNCHANGED <<rworkers, rcfg, statRows, logRows, stats0, logs0, rctxDone, rnext,
                   raborted, rwork, rerrs, rresult, ronerr, rfaults,
                   rrun, rpass, rtask, varsL, varsS, varsM,
                   varsC, varsF, varsA>>

\* the worker running task t is back in "range jobs"
JobReturned(t) == [rwork EXCEPT !.idle = @ + 1, !.jobs = @ \ {t}]

\* no task of the pass has issued a call or has been finished
NoTaskRun == [t \in 1..NumTasks |-> [calls |-> 0, runs |-> 0]]

\* task t has issued n more storage calls and, if returned, has been finished
TaskStep(t, n, returned) ==
    [rtask EXCEPT ![t] = [calls |-> @.calls + n,
                          runs |-> @.runs + (IF returned THEN 1 ELSE 0)]]

\* one iteration of the delete loop of task t, run by some worker
RJobStep(t) ==
    /\ t \in rwork.jobs
    /\ \/ \* the range of a tier-1 task is empty: return nil
          /\ RangeIsEmpty(t)
          /\ rwork' = JobReturned(t)
          /\ rtask' = TaskStep(t, 0, TRUE)
          /\ UNCHANGED <<statRows, logRows, rerrs, rfaults>>
       \/ \* ctx.Err() != nil: the job returns ctx.Err(), which the worker
          \* sends on errs unless it is context.Canceled
          /\ ~RangeIsEmpty(t) /\ rctxDone
          /\ rwork' = JobReturned(t)
          /\ rtask' = TaskStep(t, 0, TRUE)
          /\ rerrs' = IF ctxErr = "canceled" THEN rerrs ELSE Append(rerrs, t)
          /\ UNCHANGED <<statRows, logRows, rfaults>>
       \/ \* the storage call fails: the worker sends the error on errs
          /\ ~RangeIsEmpty(t) /\ ~rctxDone
          /\ rfaults < MaxFaults
          /\ rfaults' = rfaults + 1
          /\ rerrs' = Append(rerrs, t)
          /\ rwork' = JobReturned(t)
          /\ rtask' = TaskStep(t, 1, TRUE)
          /\ UNCHANGED <<statRows, logRows>>
       \/ \* the storage call deletes one batch
          /\ ~RangeIsEmpty(t) /\ ~rctxDone
          /\ LET batch == BatchOf(t) IN
             /\ statRows' = IF t \in {TaskStatsBefore, TaskStatsRange}
                            THEN statRows \ batch ELSE statRows
             /\ logRows' = IF t \in {TaskLogsBefore, TaskLogsRange}
                           THEN logRows \ batch ELSE logRows
             /\ rwork' = IF LoopEnds(Cardinality(batch))
                         THEN JobReturned(t) ELSE rwork
             /\ rtask' = TaskStep(t, 1, LoopEnds(Cardinality(batch)))
          /\ UNCHANGED <<rerrs, rfaults>>
    /\ UNCHANGED <<rworkers, rcfg, stats0, logs0, rctxDone, rmain, rnext, raborted,
                   rresult, ronerr,
                   rrun, rpass, varsL, varsS, varsM,
                   varsC, varsF, varsA>>

\* a worker's "range jobs" ends once jobs is closed
RWorkerExit ==
    /\ rmain = "wait"
    /\ rwork.idle > 0
    /\ rwork' = [rwork EXCEPT !.idle = @ - 1, !.exited = @ + 1]
    /\ UNCHANGED <<rworkers, rcfg, statRows, logRows, stats0, logs0, rctxDone, rmain,
                   rnext, raborted, rerrs, rresult, ronerr, rfaults,
                   rrun, rpass, rtask, varsL, varsS, varsM,
                   varsC, varsF, varsA>>

\* runOnce after wg.Wait(): close(errs) and return
RReturn ==
    /\ rmain = "wait"
    /\ rwork.idle = 0 /\ rwork.jobs = {}
    /\ rmain' = "returned"
    /\ IF raborted THEN rresult' = ctxErr /\ ronerr' = ronerr
       ELSE IF rerrs # <<>> THEN rresult' = "err" /\ ronerr' = ronerr + 1
       ELSE rresult' = "nil" /\ ronerr' = ronerr
    /\ UNCHANGED <<rworkers, rcfg, statRows, logRows, stats0, logs0, rctxDone, rnext,
                   raborted, rwork, rerrs, rfaults,
                   rrun, rpass, rtask, varsL, varsS, varsM,
                   varsC, varsF, varsA>>

\* Run: err != nil && !errors.Is(err, context.Canceled), on the result of
\* runOnce
PassFatal_never(res) == FALSE
PassFatal(res) == res \notin {"nil", "canceled"}

\* Run: runOnce returned an error that is not context.Canceled: return err
RRunFails ==
    /\ rmain = "returned" /\ rrun = "none"
    /\ PassFatal(rresult)
    /\ rrun' = rresult
    /\ UNCHANGED <<rworkers, rcfg, statRows, logRows, stats0, logs0, rctxDone, rmain,
                   rnext, raborted, rwork, rerrs, rresult, ronerr, rfaults,
                   rpass, rtask, varsL, varsS, varsM,
                   varsC, varsF, varsA>>

\* Run: case <-ctx.Done(): return nil
RRunCancelled ==
    /\ rmain = "returned" /\ rrun = "none"
    /\ ~PassFatal(rresult) /\ rctxDone
    /\ rrun' = "nil"
    /\ UNCHANGED <<rworkers, rcfg, statRows, logRows, stats0, logs0, rctxDone, rmain,
                   rnext, raborted, rwork, rerrs, rresult, ronerr, rfaults,
                   rpass, rtask, varsL, varsS, varsM,
                   varsC, varsF, varsA>>

\* Run: case <-ticker.C: the next pass starts
RTick ==
    /\ rmain = "returned" /\ rrun = "none"
    /\ ~PassFatal(rresult)
    /\ rpass < MaxPasses
    /\ rpass' = rpass + 1
    /\ rmain' = "dispatch" /\ rnext' = 1 /\ raborted' = FALSE
    /\ rwork' = [idle |-> PassWorkers, jobs |-> {}, exited |-> 0]
    /\ rerrs' = <<>> /\ rresult' = "none"
    /\ rtask' = NoTaskRun
    /\ UNCHANGED <<rworkers, rcfg, statRows, logRows, stats0, logs0, rctxDone, ronerr,
                   rfaults, rrun, varsL, varsS, varsM,
                   varsC, varsF, varsA>>

\* the context given to Run is cancelled
RCancel ==
    /\ rrun = "none" /\ ~rctxDone
    /\ rctxDone' = TRUE
    /\ UNCHANGED <<rworkers, rcfg, statRows, logRows, stats0, logs0, rmain, rnext,
                   raborted, rwork, rerrs, rresult, ronerr, rfaults,
                   rrun, rpass, rtask, varsL, varsS, varsM,
                   varsC, varsF, varsA>>

----------------------------------------------------------------------------
(* Log Collector: LogCollector.Run and its goroutines *)

Workloads == {"a", "b"}
StopActions == {"die", "stop", "destroy"}
EventActions == {"start"} \cup StopActions

DefaultTailerLimit == 128

\* the fields of LogConfig the collector's control flow reads
LogWithDefaults(c) ==
    [QueueSize   |-> IF c.QueueSize <= 0 THEN 1024 ELSE c.QueueSize,
     BatchSize   |-> IF c.BatchSize <= 0 THEN 200 ELSE c.BatchSize,
     TailerLimit |-> IF c.TailerLimit <= 0 THEN DefaultTailerLimit ELSE c.TailerLimit]

\* tailerCtx of goroutine g is done: its own cancel was called or ctx is done
TailerCtxDone_parentOnly(g) == lctxDone
TailerCtxDone(g) == gor[g].cancelled \/ lctxDone

\* a tailer goroutine that was started and has not returned
Active(g) == gor[g].pc # "exit"

Registered == {w \in Workloads : tailers[w] # 0}

\* startTailer: c.cfg.TailerLimit > 0 && len(c.tailers) >= c.cfg.TailerLimit
LimitReached_offByOne == lcfg.TailerLimit > 0 /\ Cardinality(Registered) > lcfg.TailerLimit
LimitReached == lcfg.TailerLimit > 0 /\ Cardinality(Registered) >= lcfg.TailerLimit

\* the registry and the goroutines after startTailer(id); cb is the OnError
\* call it makes
StartTailer(id) ==
    IF tailers[id] # 0
    THEN [tailers |-> tailers, gor |-> gor, cb |-> ""]
    ELSE IF LimitReached
    THEN [tailers |-> tailers, gor |-> gor, cb |-> "tailer limit reached"]
    ELSE [tailers |-> [tailers EXCEPT ![id] = Len(gor) + 1],
          gor     |-> Append(gor, [id |-> id, pc |-> "inspect", cancelled |-> FALSE,
                                       tty |-> FALSE]),
          cb      |-> ""]

\* startTailer(id) starts a goroutine
Spawns(id) ==
    /\ tailers[id] = 0
    /\ ~LimitReached

\* stopTailer: if ok { cancel() }: the cancel function stored under id is
\* called, which ends the tailerCtx of the goroutine that registered it
CancelEntry_forgotten(id, t, g) == g
CancelEntry(id, t, g) == [g EXCEPT ![t[id]].cancelled = TRUE]

\* the registry and the goroutines after stopTailer(id): the entry under id
\* is deleted and its cancel function called
StopTailer(id, t, g) ==
    IF t[id] = 0
    THEN [tailers |-> t, gor |-> g]
    ELSE [tailers |-> [t EXCEPT ![id] = 0],
          gor     |-> CancelEntry(id, t, g)]

\* stopAllTailers: the registry is emptied and every cancel function called
StopAllTailers ==
    [tailers |-> [w \in Workloads |-> 0],
     gor     |-> [g \in DOMAIN gor |->
                    IF \E w \in Workloads : tailers[w] = g
                    THEN [gor[g] EXCEPT !.cancelled = TRUE] ELSE gor[g]]]

\* reconcileRunning: docker.ListContainerDetail
LReconcileList ==
    /\ lmain = "list"
    /\ \/ \E S \in SUBSET Workloads :
             /\ lrecon' = S /\ lmain' = "reconcile" /\ lcb' = ""
       \/ /\ lrecon' = {} /\ lmain' = "reconcile" /\ lcb' = "list containers"
    /\ UNCHANGED <<lcfg, lctxDone, tailers, gor, logCh, lbuf, lstore, lwriter,
                   lnextRec, lsnap, lfaults, lresult,
                   lissued, varsR, varsS, varsM,
                   varsC, varsF, varsA>>

\* reconcileRunning: startTailer for the next listed workload
LReconcileNext(id) ==
    /\ lmain = "reconcile" /\ id \in lrecon
    /\ Spawns(id) => Len(gor) < MaxTailers
    /\ LET st == StartTailer(id) IN
          tailers' = st.tailers /\ gor' = st.gor /\ lcb' = st.cb
    /\ lrecon' = lrecon \ {id}
    /\ UNCHANGED <<lcfg, lctxDone, lmain, logCh, lbuf, lstore, lwriter,
                   lnextRec, lsnap, lfaults, lresult,
                   lissued, varsR, varsS, varsM,
                   varsC, varsF, varsA>>

\* eventsLoop returned: Run calls stopAllTailers and waits for the writer
EventsLoopReturns ==
    /\ lmain' = "waitWriter"
    /\ tailers' = StopAllTailers.tailers /\ gor' = StopAllTailers.gor

\* eventsLoop, top of the outer loop: ctx.Err() check, then docker.Events
LSubscribe ==
    /\ \/ lmain = "reconcile" /\ lrecon = {}
       \/ lmain = "resubscribe"
    /\ IF lctxDone THEN EventsLoopReturns
       ELSE lmain' = "events" /\ UNCHANGED <<tailers, gor>>
    /\ lcb' = ""
    /\ UNCHANGED <<lcfg, lctxDone, lrecon, logCh, lbuf, lstore, lwriter,
                   lnextRec, lsnap, lfaults, lresult,
                   lissued, varsR, varsS, varsM,
                   varsC, varsF, varsA>>

\* eventsLoop: case msg := <-msgCh, handleEvent
LEvent(id, action) ==
    /\ lmain = "events"
    /\ IF action = "start"
       THEN /\ Spawns(id) => Len(gor) < MaxTailers
            /\ LET st == StartTailer(id) IN
                  tailers' = st.tailers /\ gor' = st.gor /\ lcb' = st.cb
       ELSE /\ LET st == StopTailer(id, tailers, gor) IN
                  tailers' = st.tailers /\ gor' = st.gor
            /\ lcb' = ""
    /\ UNCHANGED <<lcfg, lctxDone, lmain, lrecon, logCh, lbuf, lstore, lwriter,
                   lnextRec, lsnap, lfaults, lresult,
                   lissued, varsR, varsS, varsM,
                   varsC, varsF, varsA>>

\* eventsLoop: case <-ctx.Done()
LEventsCancelled ==
    /\ lmain = "events" /\ lctxDone
    /\ EventsLoopReturns
    /\ lcb' = ""
    /\ UNCHANGED <<lcfg, lctxDone, lrecon, logCh, lbuf, lstore, lwriter,
                   lnextRec, lsnap, lfaults, lresult,
                   lissued, varsR, varsS, varsM,
                   varsC, varsF, varsA>>

\* how an event stream ends: errCh or msgCh is closed, errCh delivers
\* context.Canceled (only once ctx is done), errCh delivers another error
StreamEndKinds == {"closed", "canceled", "error"}

\* eventsLoop after the end of a stream: time.Sleep, then goto reconnect
AfterStreamEnds_return == "waitWriter"
AfterStreamEnds == "backoff"

\* eventsLoop: the event stream ends (errCh or msgCh closed) or reports an
\* error; time.Sleep follows
LStreamEnds(kind) ==
    /\ lmain = "events"
    /\ kind = "canceled" => lctxDone
    /\ lmain' = AfterStreamEnds
    /\ lcb' = IF kind = "error" THEN "events stream error" ELSE ""
    /\ UNCHANGED <<lcfg, lctxDone, lrecon, tailers, gor, logCh, lbuf, lstore,
                   lwriter, lnextRec, lsnap, lfaults, lresult,
                   lissued, varsR, varsS, varsM,
                   varsC, varsF, varsA>>

\* eventsLoop: time.Sleep(withJitter(...)) is over: goto reconnect
LBackoffOver ==
    /\ lmain = "backoff"
    /\ lmain' = "resubscribe" /\ lcb' = ""
    /\ UNCHANGED <<lcfg, lctxDone, lrecon, tailers, gor, logCh, lbuf, lstore,
                   lwriter, lnextRec, lsnap, lfaults, lresult,
                   lissued, varsR, varsS, varsM,
                   varsC, varsF, varsA>>

\* the tailer goroutine's "defer c.stopTailer(containerID)"
DeferredStop_none(id, t, g) == [tailers |-> t, gor |-> g]
DeferredStop(id, t, g) == StopTailer(id, t, g)

\* the tailer goroutine returns: its deferred stopTailer(containerID) runs
TailerReturns(g) ==
    LET st == DeferredStop(gor[g].id, tailers,
                           [gor EXCEPT ![g].pc = "exit", ![g].tty = FALSE])
    IN  tailers' = st.tailers /\ gor' = st.gor

\* tailer goroutine: inspectContainer, then docker.ContainerLogs
LTailerOpen(g) ==
    /\ g \in DOMAIN gor /\ gor[g].pc = "inspect"
    /\ \/ \* inspect fails (always so once tailerCtx is done): OnError
          /\ TailerReturns(g) /\ lcb' = "inspect container"
       \/ \* the log stream cannot be opened: OnError unless cancelled
          /\ TailerReturns(g)
          /\ lcb' = IF TailerCtxDone(g) THEN "" ELSE "container logs follow"
       \/ \* the stream is open: scanning starts, of the one merged stream
          \* (info.tty) or of the demultiplexed stdout and stderr
          /\ ~TailerCtxDone(g)
          /\ \E tty \in BOOLEAN :
                gor' = [gor EXCEPT ![g].pc = "tail", ![g].tty = tty]
          /\ tailers' = tailers /\ lcb' = ""
    /\ UNCHANGED <<lcfg, lctxDone, lmain, lrecon, logCh, lbuf, lstore, lwriter,
                   lnextRec, lsnap, lfaults, lresult,
                   lissued, varsR, varsS, varsM,
                   varsC, varsF, varsA>>

\* scanLines: select { case c.logCh <- rec: default: ... }: the send has a
\* default case, so the scanner is never blocked on logCh
OfferBlocks_whenFull == Len(logCh) >= lcfg.QueueSize
OfferBlocks == FALSE

\* scanLines: one line is scanned and offered to logCh without blocking
LScanLine(g) ==
    /\ g \in DOMAIN gor /\ gor[g].pc = "tail"
    /\ ~TailerCtxDone(g)
    /\ ~OfferBlocks
    /\ lnextRec <= MaxLines
    /\ lnextRec' = lnextRec + 1
    /\ IF Len(logCh) < lcfg.QueueSize
       THEN logCh' = Append(logCh, [w |-> gor[g].id, n |-> lnextRec]) /\ lcb' = ""
       ELSE logCh' = logCh /\ lcb' = "log queue full"
    /\ UNCHANGED <<lcfg, lctxDone, lmain, lrecon, tailers, gor, lbuf, lstore,
                   lwriter, lsnap, lfaults, lresult,
                   lissued, varsR, varsS, varsM,
                   varsC, varsF, varsA>>

\* tailContainer after scanLines returned a scan error: with tty it returns
\* that error; without tty the error of the scanning goroutine is discarded
\* ("_ = c.scanLines(...)") and tailContainer stays in its select
ScanErrorEndsTailer(g) == gor[g].tty

\* scanLines: a line longer than MaxLineBytes makes scanner.Scan() return
\* false with bufio.ErrTooLong
LLongLine(g) ==
    /\ g \in DOMAIN gor /\ gor[g].pc = "tail"
    /\ ~TailerCtxDone(g)
    /\ IF ScanErrorEndsTailer(g)
       THEN TailerReturns(g) /\ lcb' = "scan logs"
       ELSE UNCHANGED <<tailers, gor>> /\ lcb' = ""
    /\ UNCHANGED <<lcfg, lctxDone, lmain, lrecon, logCh, lbuf, lstore, lwriter,
                   lnextRec, lsnap, lfaults, lresult,
                   lissued, varsR, varsS, varsM,
                   varsC, varsF, varsA>>

\* tailContainer returns: the stream ended, a scan failed, or tailerCtx is done
LTailerEnds(g) ==
    /\ g \in DOMAIN gor /\ gor[g].pc = "tail"
    /\ TailerReturns(g)
    /\ \/ lcb' = ""
       \/ ~TailerCtxDone(g) /\ ScanErrorEndsTailer(g) /\ lcb' = "scan logs"
    /\ UNCHANGED <<lcfg, lctxDone, lmain, lrecon, logCh, lbuf, lstore, lwriter,
                   lnextRec, lsnap, lfaults, lresult,
                   lissued, varsR, varsS, varsM,
                   varsC, varsF, varsA>>

\* InsertContainerLogs(ctx, buf) as flush calls it: the rows are written,
\* or the call fails (the store is faulty, or ctx is done); buf = buf[:0]
LFlush(buffer, ok, case) ==
    /\ lbuf' = <<>>
    /\ lissued' = Append(lissued, [n |-> Len(buffer), case |-> case])
    /\ IF ok
       THEN lstore' = lstore \cup {buffer[i] : i \in DOMAIN buffer} /\ lfaults' = lfaults
       ELSE lstore' = lstore /\ lfaults' = lfaults + 1

\* the errors InsertContainerLogs may return: ctx.Err() once ctx is
\* done, an error of the store while it has a fault left
LInsertErrors ==
    (IF lctxDone THEN {ctxErr} ELSE {}) \cup (IF lfaults < MaxFaults THEN {"insert"} ELSE {})

\* writeLoop returns err from flush
LWriterFails ==
    \E err \in LInsertErrors : lwriter' = [pc |-> "done", err |-> err]

\* writeLoop: case rec := <-c.logCh
LWriterRecv ==
    /\ lwriter.pc = "run" /\ logCh # <<>>
    /\ logCh' = Tail(logCh)
    /\ LET buffer == Append(lbuf, Head(logCh)) IN
       IF Len(buffer) >= lcfg.BatchSize
       THEN \/ LFlush(buffer, TRUE, "size") /\ lwriter' = lwriter
            \/ LFlush(buffer, FALSE, "size") /\ LWriterFails
       ELSE lbuf' = buffer /\ UNCHANGED <<lstore, lfaults, lissued, lwriter>>
    /\ lcb' = ""
    /\ UNCHANGED <<lcfg, lctxDone, lmain, lrecon, tailers, gor, lnextRec,
                   lsnap, lresult,
                   varsR, varsS, varsM,
                   varsC, varsF, varsA>>

\* writeLoop: case <-flushTicker.C
LWriterTick ==
    /\ lwriter.pc = "run" /\ lbuf # <<>>
    /\ \/ LFlush(lbuf, TRUE, "tick") /\ lwriter' = lwriter
       \/ LFlush(lbuf, FALSE, "tick") /\ LWriterFails
    /\ lcb' = ""
    /\ UNCHANGED <<lcfg, lctxDone, lmain, lrecon, tailers, gor, logCh,
                   lnextRec, lsnap, lresult,
                   varsR, varsS, varsM,
                   varsC, varsF, varsA>>

\* writeLoop: case <-ctx.Done(): _ = flush(); return ctx.Err()
LWriterCancelled ==
    /\ lwriter.pc = "run" /\ lctxDone
    /\ IF lbuf = <<>> THEN UNCHANGED <<lbuf, lstore, lfaults, lissued>>
       ELSE \/ LFlush(lbuf, TRUE, "done")
            \/ LFlush(lbuf, FALSE, "done")
    /\ lwriter' = [pc |-> "done", err |-> ctxErr]
    /\ lcb' = ""
    /\ UNCHANGED <<lcfg, lctxDone, lmain, lrecon, tailers, gor, logCh,
                   lnextRec, lsnap, lresult,
                   varsR, varsS, varsM,
                   varsC, varsF, varsA>>

\* Run: the first of writerErr and eventsErr that is neither nil nor
\* context.Canceled, else nil; eventsLoop returns ctx.Err()
LogsRunResult(writerErr, eventsErr) ==
    IF writerErr \notin {"nil", "canceled"} THEN writerErr
    ELSE IF eventsErr \notin {"nil", "canceled"} THEN eventsErr ELSE "nil"

\* Run: writerErr := <-writerErrCh, then the return value
LRunReturns ==
    /\ lmain = "waitWriter" /\ lwriter.pc = "done"
    /\ lmain' = "returned"
    /\ lresult' = LogsRunResult(lwriter.err, ctxErr)
    /\ lcb' = ""
    /\ UNCHANGED <<lcfg, lctxDone, lrecon, tailers, gor, logCh, lbuf, lstore,
                   lwriter, lnextRec, lsnap, lfaults,
                   lissued, varsR, varsS, varsM,
                   varsC, varsF, varsA>>

\* the context given to Run is cancelled
LCancel ==
    /\ ~lctxDone /\ lmain # "returned"
    /\ lctxDone' = TRUE
    /\ lsnap' = {logCh[i] : i \in DOMAIN logCh} \cup {lbuf[i] : i \in DOMAIN lbuf}
    /\ lcb' = ""
    /\ UNCHANGED <<lcfg, lmain, lrecon, tailers, gor, logCh, lbuf, lstore,
                   lwriter, lnextRec, lfaults, lresult,
                   lissued, varsR, varsS, varsM,
                   varsC, varsF, varsA>>

RawTailerLimit == {0, 1}

LogsStart(limit) ==
    /\ lcfg = LogWithDefaults([QueueSize |-> LQueueSize, BatchSize |-> LBatchSize,
                               TailerLimit |-> limit])
    /\ lctxDone = FALSE /\ lmain = "list" /\ lrecon = {}
    /\ tailers = [w \in Workloads |-> 0] /\ gor = <<>>
    /\ logCh = <<>> /\ lbuf = <<>> /\ lstore = {}
    /\ lwriter = [pc |-> "run", err |-> ""]
    /\ lcb = "" /\ lnextRec = 1 /\ lsnap = {} /\ lfaults = 0 /\ lissued = <<>>
    /\ lresult = "none"

\* the Log Collector while another subsystem is explored: a Run that was
\* cancelled before any workload was seen, and has returned
ParkedL ==
    /\ lcfg = LogWithDefaults([QueueSize |-> LQueueSize, BatchSize |-> LBatchSize,
                               TailerLimit |-> 0])
    /\ lctxDone = TRUE /\ lmain = "returned" /\ lrecon = {}
    /\ tailers = [w \in Workloads |-> 0] /\ gor = <<>>
    /\ logCh = <<>> /\ lbuf = <<>> /\ lstore = {}
    /\ lwriter = [pc |-> "done", err |-> "canceled"]
    /\ lcb = "" /\ lnextRec = 1 /\ lsnap = {} /\ lfaults = 0 /\ lissued = <<>>
    /\ lresult = "nil"

NextL ==
    \/ LReconcileList
    \/ \E id \in Workloads : LReconcileNext(id)
    \/ LSubscribe
    \/ \E id \in Workloads, action \in EventActions : LEvent(id, action)
    \/ LEventsCancelled
    \/ \E kind \in StreamEndKinds : LStreamEnds(kind)
    \/ LBackoffOver
    \/ \E g \in 1..MaxTailers : LTailerOpen(g)
    \/ \E g \in 1..MaxTailers : LScanLine(g)
    \/ \E g \in 1..MaxTailers : LLongLine(g)
    \/ \E g \in 1..MaxTailers : LTailerEnds(g)
    \/ LWriterRecv
    \/ LWriterTick
    \/ LWriterCancelled
    \/ LRunReturns
    \/ LCancel

----------------------------------------------------------------------------
(* Stats Sampler: StatsCollector.Run and its goroutines *)

\* the fields of StatsConfig the sampler's control flow reads
StatsWithDefaults(c) ==
    [Workers   |-> IF c.Workers <= 0 THEN (IF NumCPU > 2 THEN NumCPU ELSE 2) ELSE c.Workers,
     QueueSize |-> IF c.QueueSize <= 0 THEN 256 ELSE c.QueueSize,
     BatchSize |-> IF c.BatchSize <= 0 THEN 100 ELSE c.BatchSize]

\* what listFn may return on a tick
Listings == {<<>>, <<"a">>, <<"a", "b">>}

SeqToSet(q) == {q[i] : i \in DOMAIN q}

\* enqueueOnce: listFn(ctx)
SList ==
    /\ smain = "list"
    /\ \/ \E l \in Listings :
             /\ stick < MaxTicks \/ l = <<>>
             /\ spending' = l
             /\ smain' = IF l = <<>> THEN "loop" ELSE "enqueue"
             /\ scb' = ""
       \/ spending' = <<>> /\ smain' = "loop" /\ scb' = "list containers"
    /\ stick' = IF stick < MaxTicks THEN stick + 1 ELSE stick
    /\ UNCHANGED <<scfg, sctxDone, jobs, results, swork, sbuf, sstore, swriter,
                   ssnap, sfaults, sresult,
                   sissued, varsR, varsL, varsM,
                   varsC, varsF, varsA>>

\* enqueueOnce: the select that sends on jobs has no default case: while
\* jobs is full the main goroutine waits
EnqueueWhenFull_drop == "drop"
EnqueueWhenFull == "wait"

\* enqueueOnce: case jobs <- meta
SEnqueueSend ==
    /\ smain = "enqueue"
    /\ Len(jobs.q) < scfg.QueueSize \/ EnqueueWhenFull = "drop"
    /\ jobs' = IF Len(jobs.q) < scfg.QueueSize
               THEN [jobs EXCEPT !.q = Append(@, [w |-> Head(spending), tick |-> stick])]
               ELSE jobs
    /\ spending' = Tail(spending)
    /\ smain' = IF Tail(spending) = <<>> THEN "loop" ELSE "enqueue"
    /\ scb' = ""
    /\ UNCHANGED <<scfg, sctxDone, stick, results, swork, sbuf, sstore, swriter,
                   ssnap, sfaults, sresult,
                   sissued, varsR, varsL, varsM,
                   varsC, varsF, varsA>>

\* enqueueOnce: case <-ctx.Done(): return
SEnqueueCancelled ==
    /\ smain = "enqueue" /\ sctxDone
    /\ spending' = <<>> /\ smain' = "loop" /\ scb' = ""
    /\ UNCHANGED <<scfg, sctxDone, stick, jobs, results, swork, sbuf, sstore,
                   swriter, ssnap, sfaults, sresult,
                   sissued, varsR, varsL, varsM,
                   varsC, varsF, varsA>>

\* Run: case <-ticker.C
STick ==
    /\ smain = "loop"
    /\ smain' = "list" /\ scb' = ""
    /\ UNCHANGED <<scfg, sctxDone, spending, stick, jobs, results, swork, sbuf,
                   sstore, swriter, ssnap, sfaults, sresult,
                   sissued, varsR, varsL, varsM,
                   varsC, varsF, varsA>>

\* Run: case <-ctx.Done(): close(jobs); workersWG.Wait()
SMainCancelled ==
    /\ smain = "loop" /\ sctxDone
    /\ jobs' = [jobs EXCEPT !.closed = TRUE]
    /\ smain' = "waitWorkers" /\ scb' = ""
    /\ UNCHANGED <<scfg, sctxDone, spending, stick, results, swork, sbuf,
                   sstore, swriter, ssnap, sfaults, sresult,
                   sissued, varsR, varsL, varsM,
                   varsC, varsF, varsA>>

\* workersWG.Wait() returns: every worker has run its deferred Done()
WorkersWaitDone_atOnce == TRUE
WorkersWaitDone == swork.idle = 0 /\ swork.busy = {}

\* Run: workersWG.Wait() returned: close(results); <-writerDone
SWorkersDone ==
    /\ smain = "waitWorkers"
    /\ WorkersWaitDone
    /\ results' = [results EXCEPT !.closed = TRUE]
    /\ smain' = "waitWriter" /\ scb' = ""
    /\ UNCHANGED <<scfg, sctxDone, spending, stick, jobs, swork, sbuf, sstore,
                   swriter, ssnap, sfaults, sresult,
                   sissued, varsR, varsL, varsM,
                   varsC, varsF, varsA>>

\* Run's return value: nil if errors.Is(writerErr, context.Canceled), else
\* writerErr
StatsRunResult_unfiltered(writerErr) == writerErr
StatsRunResult(writerErr) == IF writerErr = "canceled" THEN "nil" ELSE writerErr

\* Run: writerDone is closed: nil if writerErr is context.Canceled, else writerErr
SRunReturns ==
    /\ smain = "waitWriter" /\ swriter.pc = "done"
    /\ smain' = "returned"
    /\ sresult' = StatsRunResult(swriter.err)
    /\ scb' = ""
    /\ UNCHANGED <<scfg, sctxDone, spending, stick, jobs, results, swork, sbuf,
                   sstore, swriter, ssnap, sfaults,
                   sissued, varsR, varsL, varsM,
                   varsC, varsF, varsA>>

\* worker: case job, ok := <-jobs with ok: fetchFn(ctx, job) is called
SWorkerTake ==
    /\ swork.idle > 0 /\ jobs.q # <<>>
    /\ jobs' = [jobs EXCEPT !.q = Tail(@)]
    /\ swork' = [swork EXCEPT !.idle = @ - 1,
                              !.busy = @ \cup {[job |-> Head(jobs.q), pc |-> "fetch"]}]
    /\ scb' = ""
    /\ UNCHANGED <<scfg, sctxDone, smain, spending, stick, results, sbuf, sstore,
                   swriter, ssnap, sfaults, sresult,
                   sissued, varsR, varsL, varsM,
                   varsC, varsF, varsA>>

\* worker: case <-ctx.Done(), or jobs is closed and empty: return
SWorkerExit ==
    /\ swork.idle > 0
    /\ sctxDone \/ (jobs.closed /\ jobs.q = <<>>)
    /\ swork' = [swork EXCEPT !.idle = @ - 1, !.exited = @ + 1]
    /\ scb' = ""
    /\ UNCHANGED <<scfg, sctxDone, smain, spending, stick, jobs, results, sbuf,
                   sstore, swriter, ssnap, sfaults, sresult,
                   sissued, varsR, varsL, varsM,
                   varsC, varsF, varsA>>

\* the workers after fetchFn failed for b: OnError was called and the
\* worker goes on with its loop ("continue")
AfterFetchError_return(b) == [swork EXCEPT !.busy = @ \ {b}, !.exited = @ + 1]
AfterFetchError(b) == [swork EXCEPT !.busy = @ \ {b}, !.idle = @ + 1]

\* worker: fetchFn returns: a sample to send, or an error for OnError
SWorkerFetch(b) ==
    /\ b \in swork.busy /\ b.pc = "fetch"
    /\ \/ /\ swork' = [swork EXCEPT !.busy = (@ \ {b}) \cup {[b EXCEPT !.pc = "send"]}]
          /\ scb' = ""
       \/ /\ swork' = AfterFetchError(b)
          /\ scb' = "fetch stats"
    /\ UNCHANGED <<scfg, sctxDone, smain, spending, stick, jobs, results, sbuf,
                   sstore, swriter, ssnap, sfaults, sresult,
                   sissued, varsR, varsL, varsM,
                   varsC, varsF, varsA>>

\* worker: case results <- stat
SWorkerSend(b) ==
    /\ b \in swork.busy /\ b.pc = "send"
    /\ Len(results.q) < scfg.QueueSize
    /\ results' = [results EXCEPT !.q = Append(@, b.job)]
    /\ swork' = [swork EXCEPT !.busy = @ \ {b}, !.idle = @ + 1]
    /\ scb' = ""
    /\ UNCHANGED <<scfg, sctxDone, smain, spending, stick, jobs, sbuf, sstore,
                   swriter, ssnap, sfaults, sresult,
                   sissued, varsR, varsL, varsM,
                   varsC, varsF, varsA>>

\* the <-ctx.Done() case of the worker's send select is ready
SendSelectsDone_never == FALSE
SendSelectsDone == sctxDone

\* worker: case <-ctx.Done() while sending: return, the sample is dropped
SWorkerSendCancelled(b) ==
    /\ b \in swork.busy /\ b.pc = "send"
    /\ SendSelectsDone
    /\ swork' = [swork EXCEPT !.busy = @ \ {b}, !.exited = @ + 1]
    /\ scb' = ""
    /\ UNCHANGED <<scfg, sctxDone, smain, spending, stick, jobs, results, sbuf,
                   sstore, swriter, ssnap, sfaults, sresult,
                   sissued, varsR, varsL, varsM,
                   varsC, varsF, varsA>>

\* InsertContainerStats(ctx, buf) as flush calls it: the batch is written,
\* or the call fails (the store is faulty, or ctx is done); buf = buf[:0]
\* flush: if len(buf) == 0 { return nil }: a flush inserts only when the
\* buffer holds a record
HasRecords_whenFull(buffer) == Len(buffer) >= SBatchSize
HasRecords(buffer) == Len(buffer) > 0

SFlush(buffer, ok, case) ==
    /\ sbuf' = <<>>
    /\ sissued' = Append(sissued, [n |-> Len(buffer), case |-> case])
    /\ IF ok
       THEN sstore' = Append(sstore, buffer) /\ sfaults' = sfaults
       ELSE sstore' = sstore /\ sfaults' = sfaults + 1

\* the errors InsertContainerStats may return: ctx.Err() once ctx is
\* done, an error of the store while it has a fault left
SInsertErrors ==
    (IF sctxDone THEN {ctxErr} ELSE {}) \cup (IF sfaults < MaxFaults THEN {"insert"} ELSE {})

\* writeLoop returns err from flush
SWriterFails ==
    \E err \in SInsertErrors : swriter' = [pc |-> "done", err |-> err]

\* len(buf) >= c.cfg.BatchSize
BatchFull_late(buffer) == Len(buffer) > scfg.BatchSize
BatchFull(buffer) == Len(buffer) >= scfg.BatchSize

\* writeLoop: case stat, ok := <-results with ok
SWriterRecv ==
    /\ swriter.pc = "run" /\ results.q # <<>>
    /\ results' = [results EXCEPT !.q = Tail(@)]
    /\ LET buffer == Append(sbuf, Head(results.q)) IN
       IF BatchFull(buffer)
       THEN \/ SFlush(buffer, TRUE, "size") /\ swriter' = swriter
            \/ SFlush(buffer, FALSE, "size") /\ SWriterFails
       ELSE sbuf' = buffer /\ UNCHANGED <<sstore, sfaults, sissued, swriter>>
    /\ scb' = ""
    /\ UNCHANGED <<scfg, sctxDone, smain, spending, stick, jobs, swork, ssnap,
                   sresult,
                   varsR, varsL, varsM,
                   varsC, varsF, varsA>>

\* writeLoop: results is closed and drained: return flush()
SWriterClosed ==
    /\ swriter.pc = "run" /\ results.q = <<>> /\ results.closed
    /\ IF sbuf = <<>>
       THEN /\ swriter' = [pc |-> "done", err |-> "nil"]
            /\ UNCHANGED <<sbuf, sstore, sfaults, sissued>>
       ELSE \/ SFlush(sbuf, TRUE, "closed") /\ swriter' = [pc |-> "done", err |-> "nil"]
            \/ SFlush(sbuf, FALSE, "closed") /\ SWriterFails
    /\ scb' = ""
    /\ UNCHANGED <<scfg, sctxDone, smain, spending, stick, jobs, results, swork,
                   ssnap, sresult,
                   varsR, varsL, varsM,
                   varsC, varsF, varsA>>

\* writeLoop: case <-flushTicker.C
SWriterTick ==
    /\ swriter.pc = "run" /\ HasRecords(sbuf)
    /\ \/ SFlush(sbuf, TRUE, "tick") /\ swriter' = swriter
       \/ SFlush(sbuf, FALSE, "tick") /\ SWriterFails
    /\ scb' = ""
    /\ UNCHANGED <<scfg, sctxDone, smain, spending, stick, jobs, results, swork,
                   ssnap, sresult,
                   varsR, varsL, varsM,
                   varsC, varsF, varsA>>

\* writeLoop: case <-ctx.Done(): _ = flush(); return ctx.Err()
SWriterCancelled ==
    /\ swriter.pc = "run" /\ sctxDone
    /\ IF sbuf = <<>> THEN UNCHANGED <<sbuf, sstore, sfaults, sissued>>
       ELSE \/ SFlush(sbuf, TRUE, "done")
            \/ SFlush(sbuf, FALSE, "done")
    /\ swriter' = [pc |-> "done", err |-> ctxErr]
    /\ scb' = ""
    /\ UNCHANGED <<scfg, sctxDone, smain, spending, stick, jobs, results, swork,
                   ssnap, sresult,
                   varsR, varsL, varsM,
                   varsC, varsF, varsA>>

\* the context given to Run is cancelled
SCancel ==
    /\ ~sctxDone /\ smain # "returned"
    /\ sctxDone' = TRUE
    /\ ssnap' = SeqToSet(results.q) \cup SeqToSet(sbuf)
    /\ scb' = ""
    /\ UNCHANGED <<scfg, smain, spending, stick, jobs, results, swork, sbuf,
                   sstore, swriter, sfaults, sresult,
                   sissued, varsR, varsL, varsM,
                   varsC, varsF, varsA>>

RawStatsWorkers == {0, 1}

StatsStart(workers) ==
    /\ scfg = StatsWithDefaults([Workers |-> workers, QueueSize |-> SQueueSize,
                                 BatchSize |-> SBatchSize])
    /\ sctxDone = FALSE /\ smain = "list" /\ spending = <<>> /\ stick = 0
    /\ jobs = [q |-> <<>>, closed |-> FALSE]
    /\ results = [q |-> <<>>, closed |-> FALSE]
    /\ swork = [idle |-> scfg.Workers, busy |-> {}, exited |-> 0]
    /\ sbuf = <<>> /\ sstore = <<>>
    /\ swriter = [pc |-> "run", err |-> ""]
    /\ scb = "" /\ ssnap = {} /\ sfaults = 0 /\ sissued = <<>> /\ sresult = "none"

\* the Stats Sampler while another subsystem is explored: a Run that was
\* cancelled after a first tick that listed nothing, and has returned
ParkedS ==
    /\ scfg = StatsWithDefaults([Workers |-> 1, QueueSize |-> SQueueSize,
                                 BatchSize |-> SBatchSize])
    /\ sctxDone = TRUE /\ smain = "returned" /\ spending = <<>> /\ stick = 1
    /\ jobs = [q |-> <<>>, closed |-> TRUE]
    /\ results = [q |-> <<>>, closed |-> TRUE]
    /\ swork = [idle |-> 0, busy |-> {}, exited |-> scfg.Workers]
    /\ sbuf = <<>> /\ sstore = <<>>
    /\ swriter = [pc |-> "done", err |-> "canceled"]
    /\ scb = "" /\ ssnap = {} /\ sfaults = 0 /\ sissued = <<>> /\ sresult = "nil"

\* the steps of the sampler's own goroutines
SProgress ==
    \/ SList
    \/ SEnqueueSend
    \/ SEnqueueCancelled
    \/ STick
    \/ SMainCancelled
    \/ SWorkersDone
    \/ SRunReturns
    \/ SWorkerTake
    \/ SWorkerExit
    \/ \E b \in swork.busy : SWorkerFetch(b)
    \/ \E b \in swork.busy : SWorkerSend(b)
    \/ \E b \in swork.busy : SWorkerSendCancelled(b)
    \/ SWriterRecv
    \/ SWriterClosed
    \/ SWriterTick
    \/ SWriterCancelled

NextS == SProgress \/ SCancel

----------------------------------------------------------------------------
(* Manager: Start, the supervised goroutines, Stop, Wait *)

StartCalls == 1..MaxStartCalls

Pipelines == {"stats", "logs"}

\* the non-cancellation error a pipeline's Run returns
ErrOf(p) == IF p = "stats" THEN "stats failed" ELSE "logs failed"

IsFatal(err) == err \notin {"nil", "canceled"}

\* m.started.CompareAndSwap(false, true) succeeds on this value of started
CompareAndSwap_always(cur) == TRUE
CompareAndSwap(cur) == cur = FALSE

\* if m.runErr == nil { m.runErr = err }
RecordErr_lastWins(old, err) == err
RecordErr(old, err) == IF old = "nil" THEN err ELSE old

\* Start: the compare-and-swap on started, and the return of a call that
\* lost it
MStartCAS(c) ==
    /\ calls[c].pc = "call"
    /\ IF CompareAndSwap(started)
       THEN started' = TRUE /\ calls' = [calls EXCEPT ![c].pc = "ctx"]
       ELSE started' = started
            /\ calls' = [calls EXCEPT ![c] = [pc |-> "done", ret |-> "manager already started"]]
    /\ UNCHANGED <<mcfg, mcancel, mctxDone, runErr, gos, morder, mwait,
                   varsR, varsL, varsS,
                   varsC, varsF, varsA>>

\* Start: runCtx, cancel := context.WithCancel(ctx); m.cancel = cancel
MStartCtx(c) ==
    /\ calls[c].pc = "ctx"
    /\ mcancel' = "set"
    /\ calls' = [calls EXCEPT ![c].pc = "stats"]
    /\ UNCHANGED <<mcfg, started, mctxDone, runErr, gos, morder, mwait,
                   varsR, varsL, varsS,
                   varsC, varsF, varsA>>

\* Start: one "if m.cfg.X.Enabled" block: a missing collector cancels and
\* returns an error, a present one gets its goroutine
MStartPipeline(c, p) ==
    /\ calls[c].pc = p
    /\ LET enabled == IF p = "stats" THEN mcfg.StatsEnabled ELSE mcfg.LogsEnabled
           given   == IF p = "stats" THEN mcfg.stats ELSE mcfg.logs
           after   == IF p = "stats" THEN [pc |-> "logs", ret |-> "none"]
                                     ELSE [pc |-> "done", ret |-> "nil"]
       IN  IF ~enabled
           THEN calls' = [calls EXCEPT ![c] = after] /\ UNCHANGED <<gos, mctxDone>>
           ELSE IF ~given
           THEN /\ mctxDone' = TRUE
                /\ calls' = [calls EXCEPT ![c] = [pc |-> "done", ret |-> "collector is required"]]
                /\ gos' = gos
           ELSE /\ gos' = Append(gos, [p |-> p, by |-> c, pc |-> "run", err |-> "none"])
                /\ calls' = [calls EXCEPT ![c] = after]
                /\ mctxDone' = mctxDone
    /\ UNCHANGED <<mcfg, started, mcancel, runErr, morder, mwait,
                   varsR, varsL, varsS,
                   varsC, varsF, varsA>>

\* a supervised goroutine: Run(runCtx) returns; nil and runCtx.Err() only
\* once runCtx is done
MRunReturns(g) ==
    /\ gos[g].pc = "run"
    /\ \E err \in {"nil", ctxErr, ErrOf(gos[g].p)} :
          /\ err = ErrOf(gos[g].p) \/ mctxDone
          /\ gos' = [gos EXCEPT ![g].err = err,
                                ![g].pc = IF IsFatal(err) THEN "lock" ELSE "done"]
    /\ UNCHANGED <<mcfg, started, mcancel, mctxDone, runErr, calls, morder, mwait,
                   varsR, varsL, varsS,
                   varsC, varsF, varsA>>

\* a supervised goroutine: the section under runErrMu
MRecord(g) ==
    /\ gos[g].pc = "lock"
    /\ runErr' = RecordErr(runErr, gos[g].err)
    /\ morder' = Append(morder, g)
    /\ gos' = [gos EXCEPT ![g].pc = "cancel"]
    /\ UNCHANGED <<mcfg, started, mcancel, mctxDone, calls, mwait,
                   varsR, varsL, varsS,
                   varsC, varsF, varsA>>

\* a supervised goroutine: m.cancel(), then wg.Done()
MCancel(g) ==
    /\ gos[g].pc = "cancel"
    /\ mctxDone' = TRUE
    /\ gos' = [gos EXCEPT ![g].pc = "done"]
    /\ UNCHANGED <<mcfg, started, mcancel, runErr, calls, morder, mwait,
                   varsR, varsL, varsS,
                   varsC, varsF, varsA>>

\* Stop: return if m.cancel == nil, else m.cancel(); a Stop that runs while
\* the Start that assigns m.cancel has not returned may read either value
MStop ==
    /\ \/ mcancel = "set" /\ mctxDone' = TRUE
       \/ /\ mcancel = "nil" \/ \E c \in StartCalls : calls[c].pc \in {"stats", "logs"}
          /\ mctxDone' = mctxDone
    /\ UNCHANGED <<mcfg, started, mcancel, runErr, calls, gos, morder, mwait,
                   varsR, varsL, varsS,
                   varsC, varsF, varsA>>

\* the ctx given to Start is cancelled
MParentCancel ==
    /\ mcancel = "set" /\ ~mctxDone
    /\ mctxDone' = TRUE
    /\ UNCHANGED <<mcfg, started, mcancel, runErr, calls, gos, morder, mwait,
                   varsR, varsL, varsS,
                   varsC, varsF, varsA>>

\* m.wg.Wait() returns: every wg.Add(1) of Start was matched by the
\* deferred wg.Done() of its goroutine
WaitGroupZero_atOnce == TRUE
WaitGroupZero == \A g \in DOMAIN gos : gos[g].pc = "done"

\* Wait: m.wg.Wait() returns, then runErr is read under runErrMu
MWait ==
    /\ mwait = "none"
    /\ WaitGroupZero
    /\ mwait' = runErr
    /\ UNCHANGED <<mcfg, started, mcancel, mctxDone, runErr, calls, gos, morder,
                   varsR, varsL, varsS,
                   varsC, varsF, varsA>>

ManagerStart(cfg) ==
    /\ mcfg = cfg
    /\ started = FALSE /\ mcancel = "nil" /\ mctxDone = FALSE /\ runErr = "nil"
    /\ calls = [c \in StartCalls |-> [pc |-> "call", ret |-> "none"]]
    /\ gos = <<>> /\ morder = <<>> /\ mwait = "none"

\* the Manager while another subsystem is explored: no pipeline enabled,
\* Start, Stop and Wait have returned
ParkedM ==
    /\ mcfg = [StatsEnabled |-> FALSE, LogsEnabled |-> FALSE,
               stats |-> FALSE, logs |-> FALSE]
    /\ started = TRUE /\ mcancel = "set" /\ mctxDone = TRUE /\ runErr = "nil"
    /\ calls = [c \in StartCalls |->
                  [pc |-> "done",
                   ret |-> IF c = 1 THEN "nil" ELSE "manager already started"]]
    /\ gos = <<>> /\ morder = <<>> /\ mwait = "nil"

ManagerConfigs ==
    [StatsEnabled : BOOLEAN, LogsEnabled : BOOLEAN, stats : BOOLEAN, logs : BOOLEAN]

NextM ==
    \/ \E c \in StartCalls : MStartCAS(c)
    \/ \E c \in StartCalls : MStartCtx(c)
    \/ \E c \in StartCalls, p \in Pipelines : MStartPipeline(c, p)
    \/ \E g \in DOMAIN gos : MRunReturns(g)
    \/ \E g \in DOMAIN gos : MRecord(g)
    \/ \E g \in DOMAIN gos : MCancel(g)
    \/ MStop
    \/ MParentCancel
    \/ MWait

----------------------------------------------------------------------------
(* One fetch of a workload's statistics: StatsCollector.defaultFetchStats *)

\* bits of the significand of the model's floating-point numbers; float64
\* has 53, and the counters of the model are scaled down with it
MantissaBits == 2

\* float64(x) for x >= 0: the nearest floating-point number, ties to even;
\* s is the spacing of the floating-point numbers around x
ToFloat(x) ==
    LET RECURSIVE Pow2(_)
        Pow2(n) == IF n = 0 THEN 1 ELSE 2 * Pow2(n - 1)
        RECURSIVE Spacing(_)
        Spacing(s) == IF x < Pow2(MantissaBits) * s THEN s ELSE Spacing(2 * s)
        s == Spacing(1)
        q == x \div s
        r == x % s
    IN  IF 2 * r < s \/ (2 * r = s /\ q % 2 = 0) THEN q * s ELSE (q + 1) * s

\* variant: no fallback to 1
FallbackCPUs_none(n) == n
\* calculateCPUPercent: n := len(PercpuUsage); n > 0, else onlineCPUs = 1
FallbackCPUs(n) == IF n > 0 THEN n ELSE 1

\* the result is the quotient num / den, with den > 0; the counters are
\* converted to floating-point numbers and then subtracted; the model keeps
\* the quotient and the products exact
calculateCPUPercent(stats) ==
    LET FloatSub(a, b) == IF a >= b THEN ToFloat(a - b) ELSE 0 - ToFloat(b - a)
        cpuDelta    == FloatSub(ToFloat(stats.TotalUsage), ToFloat(stats.PreTotalUsage))
        systemDelta == FloatSub(ToFloat(stats.SystemUsage), ToFloat(stats.PreSystemUsage))
        onlineCPUs  == IF stats.OnlineCPUs <= 0 THEN FallbackCPUs(stats.PercpuLen)
                       ELSE stats.OnlineCPUs
    IN  IF cpuDelta <= 0 \/ systemDelta <= 0 THEN [num |-> 0, den |-> 1]
        ELSE [num |-> cpuDelta * onlineCPUs * 100, den |-> systemDelta]

DefaultMaxRawJSONBytes == 131072
\* len(`{"_truncated":true}`)
TruncationMarkerLen == 19

\* StatsConfig.withDefaults, the field MaxRawJSONBytes
MaxRawJSONBytesWithDefaults(v) == IF v <= 0 THEN DefaultMaxRawJSONBytes ELSE v

\* c.cfg.MaxRawJSONBytes > 0 && len(rawJSON) > c.cfg.MaxRawJSONBytes
OverCap(n, cap) == cap > 0 /\ n > cap

\* the RawJSON of the sample: the serialized snapshot or the marker
RawJSONOf(stats) ==
    IF OverCap(stats.JSONLen, fcfg.MaxRawJSONBytes)
    THEN [kind |-> "marker", len |-> TruncationMarkerLen]
    ELSE [kind |-> "snapshot", len |-> stats.JSONLen]

\* storage.ContainerStat{}, with the error returned beside it ("none"
\* while defaultFetchStats has not returned)
NoStat(err) ==
    [err |-> err, CPUPercent |-> [num |-> 0, den |-> 1],
     RawJSON |-> [kind |-> "empty", len |-> 0]]

\* defaultFetchStats returns the sample
FetchStats ==
    /\ fstat.err = "none"
    /\ fstat' = [err |-> "nil", CPUPercent |-> calculateCPUPercent(fresp),
                 RawJSON |-> RawJSONOf(fresp)]
    /\ UNCHANGED <<fcfg, fresp, varsR, varsL, varsS, varsM, varsC, varsA>>

\* GetContainerStatsOneShot or the decoding of its body fails
FetchFails ==
    /\ fstat.err = "none"
    /\ fstat' = NoStat("error")
    /\ UNCHANGED <<fcfg, fresp, varsR, varsL, varsS, varsM, varsC, varsA>>

RawMaxRawJSONBytes == {-1, 0, 10, 1000}

\* the usage counters take values below and above the range the
\* floating-point numbers of the model represent exactly; a serialized
\* snapshot has a few hundred bytes at least
StatsResponses ==
    [TotalUsage : {0, 1, 4, 5}, PreTotalUsage : {0, 1, 4, 5},
     SystemUsage : {0, 1, 4, 5}, PreSystemUsage : {0, 1, 4, 5},
     OnlineCPUs : {0, 2}, PercpuLen : {0, 3}, JSONLen : {600, 2000, 200000}]

----------------------------------------------------------------------------
(* Pruning of the audit table: "storage prune-audit --keep n" *)

MaxAuditRows == 3

\* the tables of at most MaxAuditRows rows; InsertAuditRecord keeps the
\* created_at the caller gives
AuditTables ==
    {{[id |-> i, created_at |-> f[i]] : i \in S} :
        S \in SUBSET (1..MaxAuditRows), f \in [1..MaxAuditRows -> 1..MaxAuditRows]}

\* the rows "ORDER BY created_at DESC OFFSET k LIMIT 1" can return: rows of
\* equal created_at come in an order of the engine's choice
BoundaryRows(rows, k) ==
    {r \in rows :
        /\ Cardinality({q \in rows : q.created_at > r.created_at}) <= k
        /\ Cardinality({q \in rows : q.created_at >= r.created_at}) >= k + 1}

\* Where("id <= ?", boundaryID).Delete
DeleteUpTo(rows, b) == {r \in rows : r.id <= b.id}

\* runPruneAudit with --keep: DeleteAuditRecordsKeepLatest(keepCount)
APrune ==
    /\ aresult = -1
    /\ IF BoundaryRows(audit, akeep) = {}
       THEN audit' = audit /\ aresult' = 0
       ELSE \E b \in BoundaryRows(audit, akeep) :
               /\ audit' = audit \ DeleteUpTo(audit, b)
               /\ aresult' = Cardinality(DeleteUpTo(audit, b))
    /\ UNCHANGED <<audit0, akeep, varsR, varsL, varsS, varsM, varsC, varsF>>

\* a query of DeleteAuditRecordsKeepLatest fails
APruneFails ==
    /\ aresult = -1
    /\ aresult' = -2
    /\ UNCHANGED <<audit, audit0, akeep, varsR, varsL, varsS, varsM, varsC, varsF>>

RawKeep == {1, 2}

\* what is at rest while something else is explored: a fetch that failed, a
\* pruning of an empty table that has returned; the context of the
\* pipelines ends by cancellation unless its deadline expires
ParkedX(fetching, pruning) ==
    /\ ~fetching =>
         /\ fcfg = [MaxRawJSONBytes |-> DefaultMaxRawJSONBytes]
         /\ fresp = [TotalUsage |-> 0, PreTotalUsage |-> 0, SystemUsage |-> 0,
                     PreSystemUsage |-> 0, OnlineCPUs |-> 0, PercpuLen |-> 0,
                     JSONLen |-> 600]
         /\ fstat = NoStat("error")
    /\ ~pruning => audit = {} /\ audit0 = {} /\ akeep = 1 /\ aresult = 0
    /\ ctxErr = "canceled"

----------------------------------------------------------------------------
(* Retention: the inputs of a pass *)

\* ages (hours) of the seeded rows: tier boundaries and tier interiors
SeedAges == {12, 24, 36, 48, 130}
\* (cpu_percent, mem_percent): ordinary, cpu at the threshold, mem above it
SeedLoad == {<<10, 10>>, <<80, 10>>, <<10, 90>>}
\* (level, source): ordinary, kept by level, kept by source
SeedOrigin == {<<"INFO", "stdout">>, <<"ERROR", "stdout">>, <<"INFO", "stderr">>}

\* configured (keep_all, keep_tier2_until): unset, ordinary, inverted
RawDurations == {<<0, 0>>, <<24, 48>>, <<48, 24>>}
RawThresholds == {0, 80}
RawBatchRows == {1, 2}
RawWorkers == {0, 1}

RefStatsPolicy == [KeepAll |-> 24, KeepAnomalyUntil |-> 48, CPUHigh |-> 80, MemHigh |-> 80]
RefLogsPolicy == [KeepAll |-> 24, KeepImportantUntil |-> 48,
                  KeepLevels |-> {"ERROR"}, KeepSources |-> {"stderr"}]

StatsPolicies ==
    {[KeepAll |-> d[1], KeepAnomalyUntil |-> d[2], CPUHigh |-> c, MemHigh |-> m] :
        d \in RawDurations, c \in RawThresholds, m \in RawThresholds}
LogsPolicies ==
    {[KeepAll |-> d[1], KeepImportantUntil |-> d[2], KeepLevels |-> l, KeepSources |-> s] :
        d \in RawDurations, l \in {{}, {"ERROR"}}, s \in {{}, {"stderr"}}}

\* the reference rows, and between them (by id) the arbitrary ones
RefStatTable == {[id |-> 20, collected_at |-> Now - 130, cpu_percent |-> 80, mem_percent |-> 10],
                 [id |-> 30, collected_at |-> Now - 12, cpu_percent |-> 10, mem_percent |-> 10]}
RefLogTable == {[id |-> 20, timestamp |-> Now - 130, level |-> "ERROR", source |-> "stdout"],
                [id |-> 30, timestamp |-> Now - 12, level |-> "INFO", source |-> "stdout"]}

StatTables ==
    UNION {{ RefStatTable \cup
             {[id |-> 10 + i, collected_at |-> Now - f[i].age,
               cpu_percent |-> f[i].load[1], mem_percent |-> f[i].load[2]] : i \in 1..n} :
             f \in [1..n -> [age : SeedAges, load : SeedLoad]]} :
           n \in 0..MaxStatRows}
LogTables ==
    UNION {{ RefLogTable \cup
             {[id |-> 10 + i, timestamp |-> Now - f[i].age, level |-> f[i].origin[1],
               source |-> f[i].origin[2]] : i \in 1..n} :
             f \in [1..n -> [age : SeedAges, origin : SeedOrigin]]} :
           n \in 0..MaxLogRows}

InitRetention ==
    /\ ParkedL /\ ParkedS /\ ParkedM /\ ParkedX(FALSE, FALSE)
    /\ \E b \in RawBatchRows, w \in RawWorkers :
         /\ rworkers = w
         /\ \/ \E sp \in StatsPolicies, st \in StatTables :
                  /\ rcfg = RetentionWithDefaults([Workers |-> w, BatchRows |-> b,
                                                   Stats |-> sp, Logs |-> RefLogsPolicy])
                  /\ statRows = st /\ logRows = RefLogTable
            \/ \E lp \in LogsPolicies, lt \in LogTables :
                  /\ rcfg = RetentionWithDefaults([Workers |-> w, BatchRows |-> b,
                                                   Stats |-> RefStatsPolicy, Logs |-> lp])
                  /\ statRows = RefStatTable /\ logRows = lt
    /\ stats0 = statRows /\ logs0 = logRows
    /\ rctxDone = FALSE
    /\ rmain = "dispatch" /\ rnext = 1 /\ raborted = FALSE
    /\ rwork = [idle |-> PassWorkers, jobs |-> {}, exited |-> 0]
    /\ rerrs = <<>> /\ rresult = "none" /\ ronerr = 0 /\ rfaults = 0
    /\ rrun = "none" /\ rpass = 1 /\ rtask = NoTaskRun

NextR ==
    \/ RDispatch
    \/ RDispatchCancelled
    \/ RCloseJobs
    \/ \E t \in 1..NumTasks : RJobStep(t)
    \/ RWorkerExit
    \/ RReturn
    \/ RRunFails
    \/ RRunCancelled
    \/ RTick
    \/ RCancel

SpecRetention == InitRetention /\ [][NextR]_vars

\* the workers settings of the retention section of the configuration
WorkerSettings == {-1, 0, 1, 3, 4, 5, 9}

\* the steps of one pass: runOnce and its worker goroutines
PassSteps ==
    \/ RDispatch \/ RDispatchCancelled \/ RCloseJobs
    \/ \E t \in 1..NumTasks : RJobStep(t)
    \/ RWorkerExit \/ RReturn

\* Run on the reference policies and tables under every workers setting
InitRetentionWorkers ==
    /\ ParkedL /\ ParkedS /\ ParkedM /\ ParkedX(FALSE, FALSE)
    /\ \E w \in WorkerSettings :
         /\ rworkers = w
         /\ rcfg = RetentionWithDefaults([Workers |-> w, BatchRows |-> 1,
                                          Stats |-> RefStatsPolicy,
                                          Logs |-> RefLogsPolicy])
    /\ statRows = RefStatTable /\ logRows = RefLogTable
    /\ stats0 = statRows /\ logs0 = logRows
    /\ rctxDone = FALSE
    /\ rmain = "dispatch" /\ rnext = 1 /\ raborted = FALSE
    /\ rwork = [idle |-> PassWorkers, jobs |-> {}, exited |-> 0]
    /\ rerrs = <<>> /\ rresult = "none" /\ ronerr = 0 /\ rfaults = 0
    /\ rrun = "none" /\ rpass = 1 /\ rtask = NoTaskRun

\* a goroutine of the pass that can take a step eventually takes one
SpecRetentionWorkers ==
    InitRetentionWorkers /\ [][NextR]_vars /\ WF_vars(PassSteps)

\* the Retention Enforcer while another subsystem is explored: a Run on
\* empty tables that was cancelled before its first task was sent, and has
\* returned
ParkedR ==
    /\ rworkers = 0
    /\ rcfg = RetentionWithDefaults([Workers |-> 0, BatchRows |-> 0,
                                     Stats |-> RefStatsPolicy, Logs |-> RefLogsPolicy])
    /\ statRows = {} /\ logRows = {} /\ stats0 = {} /\ logs0 = {}
    /\ rctxDone = TRUE /\ rmain = "returned" /\ rnext = 1 /\ raborted = TRUE
    /\ rwork = [idle |-> 0, jobs |-> {}, exited |-> PassWorkers]
    /\ rerrs = <<>> /\ rresult = "canceled" /\ ronerr = 0 /\ rfaults = 0
    /\ rrun = "nil" /\ rpass = 1 /\ rtask = NoTaskRun

InitLogs ==
    /\ ParkedR /\ ParkedS /\ ParkedM /\ ParkedX(FALSE, FALSE)
    /\ \E limit \in RawTailerLimit : LogsStart(limit)

SpecLogs == InitLogs /\ [][NextL]_vars

InitStats ==
    /\ ParkedR /\ ParkedL /\ ParkedM /\ ParkedX(FALSE, FALSE)
    /\ \E workers \in RawStatsWorkers : StatsStart(workers)

SpecStats == InitStats /\ [][NextS]_vars

InitManager ==
    /\ ParkedR /\ ParkedL /\ ParkedS /\ ParkedX(FALSE, FALSE)
    /\ \E cfg \in ManagerConfigs : ManagerStart(cfg)

SpecManager == InitManager /\ [][NextM]_vars

\* the state before one call of defaultFetchStats
InitFetch ==
    /\ ParkedR /\ ParkedL /\ ParkedS /\ ParkedM /\ ParkedX(TRUE, FALSE)
    /\ \E cap \in RawMaxRawJSONBytes, resp \in StatsResponses :
          /\ fcfg = [MaxRawJSONBytes |-> MaxRawJSONBytesWithDefaults(cap)]
          /\ fresp = resp
    /\ fstat = NoStat("none")

\* one call of defaultFetchStats
SpecFetch == InitFetch /\ [][FetchStats \/ FetchFails]_vars

\* the state before one run of "storage prune-audit --keep n"
InitAudit ==
    /\ ParkedR /\ ParkedL /\ ParkedS /\ ParkedM /\ ParkedX(FALSE, TRUE)
    /\ \E table \in AuditTables, keep \in RawKeep :
          audit = table /\ audit0 = table /\ akeep = keep
    /\ aresult = -1

\* one run of "storage prune-audit --keep n"
SpecAudit == InitAudit /\ [][APrune \/ APruneFails]_vars

\* the pipelines share nothing but the cancellation of their context: each
\* of them, and the Manager, is explored while the others are at rest
InitPipelines == InitRetention \/ InitLogs \/ InitStats \/ InitManager

NextPipelines == NextR \/ NextL \/ NextS \/ NextM

SpecPipelines == InitPipelines /\ [][NextPipelines]_vars

\* the Retention Enforcer on the reference policies and tables
InitRetentionRef ==
    /\ InitRetention
    /\ rcfg.Stats = RefStatsPolicy /\ rcfg.Logs = RefLogsPolicy
    /\ statRows = RefStatTable /\ logRows = RefLogTable

\* the steps of the pipelines' and the Manager's own goroutines, timers
\* included; not among them: the cancellations, the events and lines of
\* the workloads, the end of the event stream, a new call of Start
PipelinesProgress ==
    \/ RDispatch \/ RDispatchCancelled \/ RCloseJobs
    \/ \E t \in 1..NumTasks : RJobStep(t)
    \/ RWorkerExit \/ RReturn \/ RRunFails \/ RRunCancelled \/ RTick
    \/ LReconcileList
    \/ \E id \in Workloads : LReconcileNext(id)
    \/ LSubscribe \/ LEventsCancelled \/ LBackoffOver
    \/ \E g \in 1..MaxTailers : LTailerOpen(g)
    \/ \E g \in 1..MaxTailers : LTailerEnds(g)
    \/ LWriterRecv \/ LWriterTick \/ LWriterCancelled \/ LRunReturns
    \/ SProgress
    \/ \E c \in StartCalls : MStartCtx(c)
    \/ \E c \in StartCalls, p \in Pipelines : MStartPipeline(c, p)
    \/ \E g \in DOMAIN gos : MRunReturns(g)
    \/ \E g \in DOMAIN gos : MRecord(g)
    \/ \E g \in DOMAIN gos : MCancel(g)
    \/ MWait

\* the Log Collector with a tailer limit of one
InitLogsRef ==
    /\ InitLogs
    /\ lcfg.TailerLimit = 1

\* the deadline of the context the caller gave expires before the context
\* is cancelled: Done() is closed and Err() is context.DeadlineExceeded
DeadlineExpires ==
    /\ ctxErr' = "deadline"
    /\ \/ /\ rrun = "none" /\ ~rctxDone
          /\ rctxDone' = TRUE
          /\ UNCHANGED <<rworkers, rcfg, statRows, logRows, stats0, logs0, rmain, rnext,
                         raborted, rwork, rerrs, rresult, ronerr, rfaults,
                         rrun, rpass, rtask, varsL, varsS, varsM>>
       \/ /\ ~lctxDone /\ lmain # "returned"
          /\ lctxDone' = TRUE
          /\ lsnap' = {logCh[i] : i \in DOMAIN logCh} \cup {lbuf[i] : i \in DOMAIN lbuf}
          /\ lcb' = ""
          /\ UNCHANGED <<lcfg, lmain, lrecon, tailers, gor, logCh, lbuf, lstore,
                         lwriter, lnextRec, lfaults, lresult, lissued,
                         varsR, varsS, varsM>>
       \/ /\ ~sctxDone /\ smain # "returned"
          /\ sctxDone' = TRUE
          /\ ssnap' = SeqToSet(results.q) \cup SeqToSet(sbuf)
          /\ scb' = ""
          /\ UNCHANGED <<scfg, smain, spending, stick, jobs, results, swork, sbuf,
                         sstore, swriter, sfaults, sresult, sissued,
                         varsR, varsL, varsM>>
       \/ /\ mcancel = "set" /\ ~mctxDone
          /\ mctxDone' = TRUE
          /\ UNCHANGED <<mcfg, started, mcancel, runErr, calls, gos, morder, mwait,
                         varsR, varsL, varsS>>
    /\ UNCHANGED <<varsF, varsA>>

\* the pipelines and the Manager under a context that has a deadline
SpecDeadline ==
    /\ InitRetentionRef \/ InitLogsRef \/ InitStats \/ InitManager
    /\ [][NextPipelines \/ DeadlineExpires]_vars

\* while a goroutine can take a step some goroutine eventually takes one,
\* and the select of StatsCollector.Run, whose <-ctx.Done() case is ready
\* again and again once ctx is cancelled, eventually takes that case;
\* nothing obliges the caller to cancel or the workloads to do anything
SpecPipelinesFair ==
    /\ InitRetentionRef \/ InitLogsRef \/ InitStats \/ InitManager
    /\ [][NextPipelines]_vars
    /\ WF_vars(PipelinesProgress)
    /\ SF_vars(SMainCancelled)

\* every goroutine of the sampler that can take a step eventually takes one;
\* nothing obliges the caller to cancel ctx
SpecStatsFair ==
    /\ InitStats /\ [][NextS]_vars
    /\ WF_vars(SList) /\ WF_vars(SEnqueueSend) /\ WF_vars(SEnqueueCancelled)
    /\ WF_vars(STick) /\ WF_vars(SMainCancelled) /\ WF_vars(SWorkersDone)
    /\ WF_vars(SRunReturns) /\ WF_vars(SWorkerTake) /\ WF_vars(SWorkerExit)
    /\ WF_vars(\E b \in swork.busy : SWorkerFetch(b))
    /\ WF_vars(\E b \in swork.busy : SWorkerSend(b))
    /\ WF_vars(\E b \in swork.busy : SWorkerSendCancelled(b))
    /\ WF_vars(SWriterRecv) /\ WF_vars(SWriterClosed) /\ WF_vars(SWriterTick)
    /\ WF_vars(SWriterCancelled)

----------------------------------------------------------------------------
(* Properties of a retention pass *)

StatAge(r) == Now - r.collected_at
LogAge(r) == Now - r.timestamp
StatDeleted(r) == r \in stats0 /\ r \notin statRows
LogDeleted(r) == r \in logs0 /\ r \notin logRows

\* the pass returned nil and its context was never cancelled
PassCompleted == rmain = "returned" /\ rresult = "nil" /\ ~rctxDone

\* the importance predicates as the retention policy states them
Anomalous(r) ==
    \/ rcfg.Stats.CPUHigh # 0 /\ r.cpu_percent >= rcfg.Stats.CPUHigh
    \/ rcfg.Stats.MemHigh # 0 /\ r.mem_percent >= rcfg.Stats.MemHigh
ImportantLog(r) ==
    r.level \in rcfg.Logs.KeepLevels \/ r.source \in rcfg.Logs.KeepSources

\* C1: in every state of a pass, whatever tasks ran, failed or were
\* cancelled, every stats row and every log row that was younger than
\* keep_all when the pass started is still in the store.
C1_YoungRowsNeverDeleted ==
    /\ \A r \in stats0 : StatAge(r) < rcfg.Stats.KeepAll => r \in statRows
    /\ \A r \in logs0 : LogAge(r) < rcfg.Logs.KeepAll => r \in logRows

\* C1 witness: a pass has returned having deleted stats rows and log rows,
\* and rows younger than keep_all of both kinds were in the store.
C1_Witness ==
    /\ rmain = "returned"
    /\ \E r \in stats0 : StatAge(r) < rcfg.Stats.KeepAll
    /\ \E r \in logs0 : LogAge(r) < rcfg.Logs.KeepAll
    /\ \E r \in stats0 : StatDeleted(r)
    /\ \E r \in logs0 : LogDeleted(r)

\* C2: after a completed pass, a stats row whose age is in
\* [keep_all, keep_tier2_until) is deleted if and only if it is not
\* anomalous (cpu_percent >= cpu_high or mem_percent >= mem_high, a
\* threshold of 0 disabling its check).
C2_Tier1StatsDeletedIffNotAnomalous ==
    PassCompleted =>
        \A r \in stats0 :
            (StatAge(r) >= rcfg.Stats.KeepAll /\ StatAge(r) < rcfg.Stats.KeepAnomalyUntil)
                => (StatDeleted(r) <=> ~Anomalous(r))

\* C3: after a completed pass, a log row whose age is in
\* [keep_all, keep_tier2_until) is deleted if and only if its level is not
\* in the keep-levels list and its source is not in the keep-sources list.
C3_Tier1LogsDeletedIffUnimportant ==
    PassCompleted =>
        \A r \in logs0 :
            (LogAge(r) >= rcfg.Logs.KeepAll /\ LogAge(r) < rcfg.Logs.KeepImportantUntil)
                => (LogDeleted(r) <=> ~ImportantLog(r))

\* C4: after a pass that returned nil without its context being cancelled,
\* no stats row and no log row older than keep_tier2_until is left,
\* whatever its importance and whatever batch_rows is.
C4_Tier2EmptyAfterPass ==
    PassCompleted =>
        /\ \A r \in statRows : ~(StatAge(r) > rcfg.Stats.KeepAnomalyUntil)
        /\ \A r \in logRows : ~(LogAge(r) > rcfg.Logs.KeepImportantUntil)

\* C4 witness: a completed pass with batch_rows = 1 that had to delete two
\* stats rows older than keep_tier2_until, one of them anomalous, and a log
\* row older than keep_tier2_until that the allow-lists match.
C4_Witness ==
    /\ PassCompleted
    /\ rcfg.BatchRows = 1
    /\ Cardinality({r \in stats0 : StatAge(r) > rcfg.Stats.KeepAnomalyUntil}) >= 2
    /\ \E r \in stats0 : StatAge(r) > rcfg.Stats.KeepAnomalyUntil /\ Anomalous(r)
    /\ \E r \in logs0 : LogAge(r) > rcfg.Logs.KeepImportantUntil /\ ImportantLog(r)

\* C27: after a completed pass, a row whose age is exactly keep_tier2_until
\* is deleted whatever its importance, and a row whose age is exactly
\* keep_all is deleted when it is not important.
C27_TierLowerBoundsClosed ==
    PassCompleted =>
        /\ \A r \in stats0 :
              /\ StatAge(r) = rcfg.Stats.KeepAnomalyUntil => StatDeleted(r)
              /\ (StatAge(r) = rcfg.Stats.KeepAll /\ ~Anomalous(r)) => StatDeleted(r)
        /\ \A r \in logs0 :
              /\ LogAge(r) = rcfg.Logs.KeepImportantUntil => LogDeleted(r)
              /\ (LogAge(r) = rcfg.Logs.KeepAll /\ ~ImportantLog(r)) => LogDeleted(r)

----------------------------------------------------------------------------
(* Properties of RetentionCollector.Run *)

\* C21: Run starts with a pass and starts every further pass on a tick, one
\* pass per tick, after the pass before it has returned without a
\* non-cancellation error; it returns nil only with ctx cancelled; once a
\* pass has returned a non-cancellation error no further pass starts, Run is
\* able to return at once and what it returns is that error.
C21_RunPassesAndResult ==
    /\ [](rrun # "none" => rmain = "returned")
    /\ [](rrun = "nil" => (rctxDone /\ rresult # "err"))
    /\ [](rrun = "err" => rresult = "err")
    /\ []((rmain = "returned" /\ rresult = "err" /\ rrun = "none")
            => (ENABLED RRunFails /\ ~ENABLED RTick /\ ~ENABLED RRunCancelled))
    /\ [][/\ rpass' # rpass
              => /\ rpass' = rpass + 1
                 /\ rmain = "returned" /\ rmain' = "dispatch"
                 /\ rresult # "err" /\ rrun = "none"
          /\ (rmain = "returned" /\ rmain' # "returned") => rpass' = rpass + 1
          /\ (rresult = "err" /\ rmain = "returned")
              => (rpass' = rpass /\ rmain' = rmain /\ rrun' \in {"none", "err"})]_vars

\* Run has returned the error of its second pass, the one started by the
\* first tick
C21_Witness ==
    /\ rrun = "err" /\ rpass = 2 /\ rresult = "err"
    /\ ~rctxDone

\* C22: when a delete task of a pass has returned a non-cancellation error
\* (its worker sent it on errs), the pass returns a non-nil error and OnError
\* has been called with the task's error; the rows still stored are rows the
\* pass started with (nothing is put back).
C22_TaskErrorReported ==
    /\ (rmain = "returned" /\ rerrs # <<>>) => (rresult # "nil" /\ ronerr > 0)
    /\ statRows \subseteq stats0 /\ logRows \subseteq logs0

----------------------------------------------------------------------------
(* Properties of the Log Collector *)

ActiveTailersOf(w) == {g \in DOMAIN gor : gor[g].id = w /\ Active(g)}

\* C5: in every reachable state, for every workload id, at most one tailer
\* goroutine that was started has not yet returned.
C5_AtMostOneActiveTailer ==
    \A w \in Workloads : Cardinality(ActiveTailersOf(w)) <= 1

\* C7: when Run has returned after a cancellation and no insert returned an
\* error, every record that was in logCh or in the writer's buffer at the
\* moment of cancellation has been written.
C7_QueuedLogsPersistedOnShutdown ==
    (lmain = "returned" /\ lfaults = 0) => lsnap \subseteq lstore

----------------------------------------------------------------------------
(* Properties of the Stats Sampler *)

\* the samples InsertContainerStats has written
Persisted == UNION {SeqToSet(sstore[i]) : i \in DOMAIN sstore}

\* C6: when Run has returned after a cancellation and no insert returned an
\* error, every sample that was in the results channel or in the writer's
\* buffer at the moment of cancellation has been written.
C6_BufferedSamplesPersistedOnShutdown ==
    (smain = "returned" /\ sctxDone /\ sfaults = 0) => ssnap \subseteq Persisted

\* C8: once the writer has returned an insert error while ctx is not
\* cancelled, Run returns that error, unless somebody cancels ctx first.
C8_RunReturnsWriteError ==
    (swriter.err = "insert" /\ ~sctxDone)
        ~> ((smain = "returned" /\ sresult = "insert") \/ sctxDone)

----------------------------------------------------------------------------
(* Properties of the Manager *)

\* the goroutines whose Run returned a non-cancellation error
Failed == {g \in DOMAIN gos : IsFatal(gos[g].err) /\ gos[g].err # "none"}

\* C9: runErr is the error of the first supervised goroutine that reported
\* one, whatever was reported after it, and every goroutine that has
\* finished after a non-cancellation error has cancelled the shared context.
C9_FirstErrorWinsAndCancels ==
    /\ morder # <<>> => runErr = gos[Head(morder)].err
    /\ morder = <<>> => runErr = "nil"
    /\ \A g \in Failed : gos[g].pc = "done" => mctxDone

\* C9 witness: two pipelines reported different errors, one after the
\* other, and both goroutines have finished.
C9_Witness ==
    /\ Len(morder) = 2
    /\ gos[morder[1]].err # gos[morder[2]].err
    /\ \A g \in DOMAIN gos : gos[g].pc = "done"

\* the calls of Start that spawned a goroutine or returned nil
StartedBy == {c \in StartCalls :
                 \/ \E g \in DOMAIN gos : gos[g].by = c
                 \/ calls[c].pc = "done" /\ calls[c].ret = "nil"}

\* C10: at most one call of Start spawns goroutines or succeeds, and every
\* other call that has returned returned an error and spawned nothing.
C10_StartIsOneShot ==
    /\ Cardinality(StartedBy) <= 1
    /\ \A p \in Pipelines : Cardinality({g \in DOMAIN gos : gos[g].p = p}) <= 1
    /\ \A c \in StartCalls :
          (calls[c].pc = "done" /\ c \notin StartedBy)
              => calls[c].ret = "manager already started" \/ calls[c].ret = "collector is required"

\* C10 witness: all calls of Start have returned, one of them spawned both
\* pipelines, and the others returned "manager already started".
C10_Witness ==
    /\ \A c \in StartCalls : calls[c].pc = "done"
    /\ Len(gos) = 2
    /\ Cardinality({c \in StartCalls : calls[c].ret = "manager already started"})
           = MaxStartCalls - 1

\* C11: the step in which Wait returns is taken only when no goroutine
\* spawned by Start is still running, and Wait then returns the error of
\* the first goroutine that reported one, or nil if none returned a
\* non-cancellation error.
C11_WaitReturnsAfterAllExit ==
    [][(mwait = "none" /\ mwait' # "none")
         => /\ \A g \in DOMAIN gos : gos[g].pc = "done"
            /\ mwait' = IF Failed = {} THEN "nil" ELSE gos[Head(morder)].err]_vars

\* C11 witness: Wait has returned an error after both pipelines were
\* spawned and both reported a non-cancellation error.
C11_Witness ==
    /\ mwait \notin {"none", "nil"}
    /\ Len(gos) = 2 /\ Len(morder) = 2

\* C14: the step in which a fetch fails calls OnError and nothing else
\* happens to the job: it is not put back on jobs, no sample reaches
\* results, the writer or the store, Run stays where it is, and the worker
\* is back in its select, none having returned.
C14_FailedFetchIsSkipped ==
    [][scb' = "fetch stats"
         => /\ \E b \in swork.busy :
                  b.pc = "fetch" /\ swork'.busy = swork.busy \ {b}
            /\ swork'.idle = swork.idle + 1 /\ swork'.exited = swork.exited
            /\ jobs' = jobs /\ results' = results
            /\ sbuf' = sbuf /\ sstore' = sstore
            /\ smain' = smain /\ sresult' = sresult /\ swriter' = swriter]_vars

\* C14 witness: with a single worker a fetch has just failed while another
\* job waits on jobs and Run is in its loop.
C14_Witness ==
    /\ scb = "fetch stats"
    /\ scfg.Workers = 1 /\ swork.idle = 1
    /\ jobs.q # <<>> /\ smain = "loop" /\ ~sctxDone

\* the sizes of the inserts the stats writer issued, in order
IssuedSizes == [i \in DOMAIN sissued |-> sissued[i].n]

RECURSIVE SumSeq(_)
SumSeq(q) == IF q = <<>> THEN 0 ELSE Head(q) + SumSeq(Tail(q))

\* n records in batches of b: full batches, then the remainder if any
BatchSizes(n, b) ==
    [i \in 1..((n \div b) + (IF n % b > 0 THEN 1 ELSE 0)) |->
        IF i <= n \div b THEN b ELSE n % b]

\* C15: no insert of the stats writer carries more than batch_size or fewer
\* than 1 samples; and when the writer has returned through the closed
\* results channel, every insert having succeeded and none having been
\* issued by the flush timer, the N samples it received were inserted in
\* batches of batch_size, ..., batch_size, N mod batch_size, in that order.
C15_SizeTriggeredBatches ==
    /\ \A i \in DOMAIN sissued : sissued[i].n >= 1 /\ sissued[i].n <= scfg.BatchSize
    /\ (/\ swriter = [pc |-> "done", err |-> "nil"]
        /\ \A i \in DOMAIN sissued : sissued[i].case # "tick")
           => IssuedSizes = BatchSizes(SumSeq(IssuedSizes), scfg.BatchSize)

\* C15 witness: three samples reached the writer without a flush tick, the
\* results channel was closed, and the writer issued inserts of 2 and 1.
C15_Witness ==
    /\ swriter = [pc |-> "done", err |-> "nil"]
    /\ scfg.BatchSize = 2
    /\ Len(sissued) = 2
    /\ sissued[1] = [n |-> 2, case |-> "size"]
    /\ sissued[2] = [n |-> 1, case |-> "closed"]

----------------------------------------------------------------------------
(* Ordering of one workload's samples *)

\* C17: for one workload the samples are written in collection order: the
\* sample of an earlier tick is never in a later insert than the sample of a
\* later tick of the same workload, whatever the number of workers.
C17_PerWorkloadOrder ==
    \A p \in DOMAIN sstore : \A q \in DOMAIN sstore :
        \A x \in SeqToSet(sstore[p]) : \A y \in SeqToSet(sstore[q]) :
            (x.w = y.w /\ x.tick < y.tick) => p <= q

----------------------------------------------------------------------------
(* The tailer registry and its limit *)

\* the registry holds tailer_limit entries or more
RegistryFull == Cardinality(Registered) >= lcfg.TailerLimit

\* the step is a call startTailer(id), from an event or from the reconcile
StartRequest(id) == LEvent(id, "start") \/ LReconcileNext(id)

\* the call registered nothing, spawned nothing and called OnError
Rejected ==
    /\ tailers' = tailers /\ gor' = gor
    /\ lcb' = "tailer limit reached"

\* C18 as stated: the registry never holds more than tailer_limit entries,
\* and every start request that arrives while the registry is full is
\* rejected with a call of the error callback, and is never blocked.
C18_EveryStartWhenFullReported ==
    /\ [](Cardinality(Registered) <= lcfg.TailerLimit)
    /\ []((lmain = "events" /\ RegistryFull)
            => \A id \in Workloads : ENABLED LEvent(id, "start"))
    /\ [][\A id \in Workloads :
            (StartRequest(id) /\ RegistryFull) => Rejected]_vars

\* C18: the registry never holds more than tailer_limit entries; a start
\* request for a workload that has no tailer, arriving while the registry is
\* full, registers nothing, spawns no goroutine and calls the error callback,
\* and the event loop is never blocked on it; a start request for a workload
\* that already has a tailer changes nothing and reports nothing.
C18_RegistryBounded ==
    /\ [](Cardinality(Registered) <= lcfg.TailerLimit)
    /\ []((lmain = "events" /\ RegistryFull)
            => \A id \in Workloads : ENABLED LEvent(id, "start"))
    /\ [][\A id \in Workloads :
            /\ (StartRequest(id) /\ RegistryFull /\ tailers[id] = 0) => Rejected
            /\ (StartRequest(id) /\ tailers[id] # 0)
                   => (tailers' = tailers /\ gor' = gor /\ lcb' = "")]_vars

\* a start request has just been rejected: the registry is full (limit 1),
\* a workload without a tailer exists, and OnError got the limit error
C18_Witness ==
    /\ lcfg.TailerLimit = 1 /\ Cardinality(Registered) = 1
    /\ lcb = "tailer limit reached"
    /\ \E id \in Workloads : tailers[id] = 0

----------------------------------------------------------------------------
(* Backpressure of the log queue *)

\* tailer goroutine g is scanning and has a next line to push
HasLine(g) ==
    /\ gor[g].pc = "tail" /\ ~TailerCtxDone(g)
    /\ lnextRec <= MaxLines

\* C19: a scanner that has a record to push is never blocked, whether the
\* queue is full or not and whether the writer runs or has exited; when the
\* queue is full the push leaves the queue as it is (the record is dropped),
\* calls OnError, and the scanner stays in its loop at the next line.
C19_LossyNeverBlocking ==
    /\ [](\A g \in DOMAIN gor : HasLine(g) => ENABLED LScanLine(g))
    /\ [][\A g \in DOMAIN gor :
            (LScanLine(g) /\ Len(logCh) >= lcfg.QueueSize)
                => /\ logCh' = logCh
                   /\ lcb' = "log queue full"
                   /\ gor'[g].pc = "tail"
                   /\ lnextRec' = lnextRec + 1]_vars

\* a record has just been dropped on the full queue after the writer exited
C19_Witness ==
    /\ lwriter.pc = "done" /\ ~lctxDone
    /\ Len(logCh) = lcfg.QueueSize
    /\ lcb = "log queue full"
    /\ \E g \in DOMAIN gor : gor[g].pc = "tail"

----------------------------------------------------------------------------
(* The event loop and the end of an event stream *)

\* C20: the event loop leaves its stream only into the wait (or, once ctx is
\* done, by returning), the wait always ends and leads to the subscription
\* step, which subscribes again unless ctx is done; a stream error other
\* than the cancellation is passed to OnError; the event loop returns only
\* when ctx is done, and Run returns nil or the writer's insert error, never
\* an error of the event stream.
C20_EventLoopSurvivesStreamErrors ==
    /\ [](lmain = "backoff" => ENABLED LBackoffOver)
    /\ [](lmain = "resubscribe" => ENABLED LSubscribe)
    /\ [](lmain = "returned"
            => /\ lctxDone
               /\ lresult \in {"nil", "insert"}
               /\ (lresult = "insert" => lwriter.err = "insert"))
    /\ [][/\ (lmain = "events" /\ lmain' # "events")
              => (lmain' = "backoff" \/ (lctxDone /\ lmain' = "waitWriter"))
          /\ (lmain = "backoff" /\ lmain' # "backoff") => lmain' = "resubscribe"
          /\ (lmain = "resubscribe" /\ lmain' # "resubscribe")
              => lmain' = IF lctxDone THEN "waitWriter" ELSE "events"
          /\ lmain' = "waitWriter" => lctxDone
          /\ LStreamEnds("error")
              => (lcb' = "events stream error" /\ lmain' = "backoff")]_vars

\* a stream error has just been passed to OnError and the event loop is in
\* its wait, ctx is not done and a tailer started before is still registered
C20_Witness ==
    /\ lmain = "backoff" /\ lcb = "events stream error" /\ ~lctxDone
    /\ Registered # {}

----------------------------------------------------------------------------
(* A tailer whose workload dies right after its start *)

----------------------------------------------------------------------------
(* Every listed workload is sampled *)

\* the samples a Run may collect
Samples == [w : Workloads, tick : 1..MaxTicks]

\* the job or the sample x is on its way: still to be sent on jobs, in jobs,
\* with a worker, in results, or in the writer's buffer
Pending(x) ==
    \/ smain = "enqueue" /\ stick = x.tick /\ x.w \in SeqToSet(spending)
    \/ x \in SeqToSet(jobs.q)
    \/ \E b \in swork.busy : b.job = x
    \/ x \in SeqToSet(results.q)
    \/ x \in SeqToSet(sbuf)

\* C24: a workload listed on a tick leaves the pipeline only as a written
\* sample, unless its fetch failed, an insert failed or ctx is cancelled
\* (none is dropped on a full jobs or results channel); and while ctx is
\* not cancelled and no insert has failed it does leave the pipeline.
C24_ListedWorkloadsArePersisted ==
    /\ \A x \in Samples :
          Pending(x) ~> (~Pending(x) \/ sctxDone \/ sfaults > 0)
    /\ [][\A x \in Samples :
            (Pending(x) /\ ~Pending(x)')
                => \/ x \in Persisted'
                   \/ scb' = "fetch stats"
                   \/ sfaults' > sfaults
                   \/ sctxDone]_vars

\* both workloads were listed on both ticks and all four samples are written,
\* with jobs and results of capacity 1, no failure and no cancellation
C24_Witness ==
    /\ Samples \subseteq Persisted
    /\ scfg.QueueSize = 1
    /\ ~sctxDone /\ sfaults = 0

----------------------------------------------------------------------------
(* A line longer than max_line_bytes *)

\* C26: a line longer than max_line_bytes ends the tailer that scanned it,
\* with or without tty: its goroutine returns, the registry entry of its
\* workload is released and OnError gets the scan error, while Run, the
\* writer and every other tailer stay as they are.
C26_LongLineEndsItsTailer ==
    [][\A g \in DOMAIN gor :
        LLongLine(g)
            => /\ gor'[g].pc = "exit"
               /\ tailers'[gor[g].id] = 0
               /\ lcb' = "scan logs"
               /\ \A h \in DOMAIN gor \ {g} : gor'[h] = gor[h]
               /\ lmain' = lmain /\ lwriter' = lwriter]_vars

----------------------------------------------------------------------------
(* Frame of the per-workload tailer transitions *)

\* what a start or stop request never touches
TailerFrame == UNCHANGED <<lcfg, lctxDone, logCh, lbuf, lstore, lwriter, lresult>>

\* C28: a start request for an id that is registered changes neither the
\* registry nor the goroutines and calls no callback; a stop event for an id
\* that is not registered changes nothing either; a stop event for a
\* registered id removes that id's entry and no other, and cancels the
\* context of that entry's goroutine and of no other.
C28_TailerTransitionsFrame ==
    [][\A id \in Workloads :
        /\ (StartRequest(id) /\ tailers[id] # 0)
              => (tailers' = tailers /\ gor' = gor /\ lcb' = "" /\ TailerFrame)
        /\ \A a \in StopActions :
              /\ (LEvent(id, a) /\ tailers[id] = 0)
                    => (tailers' = tailers /\ gor' = gor /\ lcb' = "" /\ TailerFrame)
              /\ (LEvent(id, a) /\ tailers[id] # 0)
                    => /\ tailers' = [tailers EXCEPT ![id] = 0]
                       /\ gor' = [gor EXCEPT ![tailers[id]].cancelled = TRUE]
                       /\ lcb' = "" /\ TailerFrame]_vars

\* a stop event has removed the entry of one workload and cancelled its
\* goroutine, which has not returned yet, while the other workload's tailer
\* is registered and not cancelled
C28_Witness ==
    /\ ~lctxDone /\ lmain = "events"
    /\ \E g \in DOMAIN gor :
          gor[g].cancelled /\ Active(g) /\ tailers[gor[g].id] = 0
    /\ \E h \in DOMAIN gor :
          ~gor[h].cancelled /\ Active(h) /\ tailers[gor[h].id] = h

----------------------------------------------------------------------------
(* The registry and the active tailer goroutines *)

\* C29 as stated: the registry has an entry for w exactly when a tailer
\* goroutine for w has been started and has not returned.
C29_EntryIffActiveTailer ==
    \A w \in Workloads : (tailers[w] # 0) <=> (ActiveTailersOf(w) # {})

\* C29: an entry for w is the entry of a goroutine for w that has not
\* returned and is not cancelled through it; a goroutine that has not
\* returned and has no entry is one whose context is cancelled: it is on
\* its way out.
C29_EntryImpliesActiveTailer ==
    /\ \A w \in Workloads :
          tailers[w] # 0
              => /\ tailers[w] \in DOMAIN gor
                 /\ gor[tailers[w]].id = w
                 /\ Active(tailers[w])
                 /\ ~gor[tailers[w]].cancelled
    /\ \A g \in DOMAIN gor :
          (Active(g) /\ tailers[gor[g].id] # g) => gor[g].cancelled

\* one tailer is registered and scanning, and another goroutine, cancelled
\* by a stop event, has no entry and has not returned yet
C29_Witness ==
    /\ ~lctxDone
    /\ \E g \in DOMAIN gor : gor[g].pc = "tail" /\ tailers[gor[g].id] = g
    /\ \E g \in DOMAIN gor :
          Active(g) /\ gor[g].cancelled /\ tailers[gor[g].id] = 0

----------------------------------------------------------------------------
(* A failed insert of the log writer *)

\* C30: once the log writer has returned an insert error while ctx is not
\* cancelled, LogCollector.Run returns that error, unless somebody cancels
\* ctx first.
C30_LogRunReturnsWriteError ==
    (lwriter.err = "insert" /\ ~lctxDone)
        ~> ((lmain = "returned" /\ lresult = "insert") \/ lctxDone)

----------------------------------------------------------------------------
(* The bounded batches of the delete tasks *)

\* Run has applied withDefaults and is about to send the first task of its
\* first pass
RunStarts == rpass = 1 /\ rmain = "dispatch" /\ rnext = 1

\* configured values of batch_rows, around both ends of the allowed range
BatchRowsSettings == {-1, 0, 1, 2, 899, 900, 901, 5000}

\* the rows task t is to delete: those the WHERE clause of its call selects
TaskSelects(t, r) ==
    CASE t = TaskStatsBefore -> r.collected_at < statsCutAnomaly
      [] t = TaskStatsRange ->
            /\ statsCutAll > statsCutAnomaly
            /\ StatsNonAnomalyWhere(r, statsCutAnomaly, statsCutAll,
                                    rcfg.Stats.CPUHigh, rcfg.Stats.MemHigh)
      [] t = TaskLogsBefore -> r.timestamp < logsCutImportant
      [] t = TaskLogsRange ->
            /\ logsCutAll > logsCutImportant
            /\ LogsUnimportantWhere(r, logsCutImportant, logsCutAll,
                                    rcfg.Logs.KeepLevels, rcfg.Logs.KeepSources)

TableOf(t, stats, logs) == IF t \in {TaskStatsBefore, TaskStatsRange} THEN stats ELSE logs

\* the rows of task t when Run started
Matching(t) == {r \in TableOf(t, stats0, logs0) : TaskSelects(t, r)}

CeilDiv(a, b) == (a + b - 1) \div b

\* the step in which task t returns nil after its loop
TaskCompletes(t) ==
    /\ t \in rwork.jobs /\ t \notin rwork'.jobs
    /\ ~RangeIsEmpty(t) /\ ~rctxDone /\ rerrs' = rerrs

\* C31: the effective batch_rows is in [1, 900] whatever is configured; a
\* delete call removes at most batch_rows rows, all of them selected by its
\* task; a call that removed rows is followed by another call of the task;
\* a task issues at most ceil(matching / batch_rows) + 1 calls and, when it
\* returns nil, none of its matching rows is left.
C31_BoundedBatchesUntilEmpty ==
    [][ /\ RunStarts =>
             \A v \in BatchRowsSettings :
                /\ RetentionWithDefaults([rcfg EXCEPT !.BatchRows = v]).BatchRows
                     \in 1..900
                /\ normalizeDeleteLimit(v) \in 1..900
        /\ rcfg.BatchRows \in 1..900
        /\ Cardinality(statRows \ statRows') + Cardinality(logRows \ logRows')
             <= rcfg.BatchRows
        /\ statRows' \subseteq statRows /\ logRows' \subseteq logRows
        /\ \A t \in 1..NumTasks :
             /\ rtask'[t].calls
                  <= CeilDiv(Cardinality(Matching(t)), rcfg.BatchRows) + 1
             /\ (rtask'[t].calls > rtask[t].calls) =>
                  /\ (statRows \ statRows') \cup (logRows \ logRows')
                       \subseteq Matching(t)
                  /\ (statRows' # statRows \/ logRows' # logRows) =>
                       t \in rwork'.jobs
             /\ TaskCompletes(t) =>
                  /\ statRows' = statRows /\ logRows' = logRows
                  /\ Matching(t) \cap TableOf(t, statRows', logRows') = {}
      ]_vars

\* C31 witness: with batch_rows = 1 a task has returned nil after three
\* calls, the first two of which removed one row each.
C31_Witness ==
    /\ rcfg.BatchRows = 1 /\ ~rctxDone /\ rerrs = <<>> /\ rpass = 1
    /\ \E t \in 1..NumTasks :
         /\ rtask[t] = [calls |-> 3, runs |-> 1]
         /\ Cardinality(Matching(t)) = 2
         /\ Matching(t) \cap TableOf(t, statRows, logRows) = {}

----------------------------------------------------------------------------
(* A task error and the rest of its pass *)

\* C32: once a delete task of a pass has returned a non-cancellation error,
\* no further task of that pass is started and no further storage call is
\* issued by the tasks of that pass.
C32_TaskErrorAbortsPass ==
    [][ (rerrs # <<>> /\ rmain # "returned") =>
            /\ rnext' = rnext
            /\ \A t \in 1..NumTasks : rtask'[t].calls = rtask[t].calls
      ]_vars

----------------------------------------------------------------------------
(* The durations of the effective retention policy *)

\* configured durations (hours): negative, unset, and positive ones
DurationSettings == {-5, 0, 24, 48}

\* the policy withDefaults makes of the configured durations
PolicyOf(keepAll, until) ==
    RetentionWithDefaults([rcfg EXCEPT !.Stats.KeepAll = keepAll,
                                       !.Stats.KeepAnomalyUntil = until,
                                       !.Logs.KeepAll = keepAll,
                                       !.Logs.KeepImportantUntil = until])

Ordered(keepAll, until) == until >= keepAll /\ keepAll > 0

\* C33: whatever durations are configured, the policy in use has
\* keep_tier2_until >= keep_all > 0 for stats and for logs; the tier-2
\* cutoff is never later than the tier-1 cutoff, and a tier-1 task whose
\* two cutoffs are equal issues no delete call.
C33_PolicyDurationsOrdered ==
    /\ RunStarts =>
         \A keepAll, until \in DurationSettings :
            LET p == PolicyOf(keepAll, until) IN
            /\ Ordered(p.Stats.KeepAll, p.Stats.KeepAnomalyUntil)
            /\ Ordered(p.Logs.KeepAll, p.Logs.KeepImportantUntil)
    /\ Ordered(rcfg.Stats.KeepAll, rcfg.Stats.KeepAnomalyUntil)
    /\ Ordered(rcfg.Logs.KeepAll, rcfg.Logs.KeepImportantUntil)
    /\ statsCutAnomaly <= statsCutAll /\ logsCutImportant <= logsCutAll
    /\ statsCutAnomaly = statsCutAll => rtask[TaskStatsRange].calls = 0
    /\ logsCutImportant = logsCutAll => rtask[TaskLogsRange].calls = 0

\* C33 witness: keep_all = 48 h and keep_tier2_until = 24 h were configured
\* for stats, the policy in use has 48 h for both, and the pass has
\* completed with the tier-1 stats task finished without a call.
C33_Witness ==
    /\ PassCompleted
    /\ rcfg.Stats.KeepAll = 48 /\ rcfg.Stats.KeepAnomalyUntil = 48
    /\ rtask[TaskStatsRange] = [calls |-> 0, runs |-> 1]
    /\ rtask[TaskStatsBefore].calls >= 2

----------------------------------------------------------------------------
(* The CPU percentage of a sample *)

Fetched == fstat.err = "nil"

\* the deltas of the usage counters as integers
CPUDelta == fresp.TotalUsage - fresp.PreTotalUsage
SystemDelta == fresp.SystemUsage - fresp.PreSystemUsage

\* the deltas as float64 computes them from the converted counters
FloatDelta(cur, pre) ==
    IF ToFloat(cur) >= ToFloat(pre) THEN ToFloat(ToFloat(cur) - ToFloat(pre))
    ELSE 0 - ToFloat(ToFloat(pre) - ToFloat(cur))
FloatCPUDelta == FloatDelta(fresp.TotalUsage, fresp.PreTotalUsage)
FloatSystemDelta == FloatDelta(fresp.SystemUsage, fresp.PreSystemUsage)

\* the number of CPUs to scale by
ScaleCPUs ==
    IF fresp.OnlineCPUs > 0 THEN fresp.OnlineCPUs
    ELSE IF fresp.PercpuLen > 0 THEN fresp.PercpuLen ELSE 1

\* the four counters are numbers that float64 represents exactly
CountersExact ==
    \A x \in {fresp.TotalUsage, fresp.PreTotalUsage,
              fresp.SystemUsage, fresp.PreSystemUsage} : ToFloat(x) = x

----------------------------------------------------------------------------
(* The raw snapshot of a sample *)

\* C35: the raw snapshot stored with a sample of a successful fetch is the
\* serialized snapshot, of a length within max_raw_json_bytes, or the
\* truncation marker; it is never empty, and its length never exceeds
\* max_raw_json_bytes.
C35_RawSnapshotWithinCap ==
    Fetched =>
        /\ fstat.RawJSON.kind \in {"snapshot", "marker"}
        /\ fstat.RawJSON.kind = "snapshot" =>
              /\ fstat.RawJSON.len = fresp.JSONLen
              /\ fstat.RawJSON.len <= fcfg.MaxRawJSONBytes
        /\ fstat.RawJSON.kind = "marker" => fstat.RawJSON.len = TruncationMarkerLen
        /\ fstat.RawJSON.len > 0
        /\ fstat.RawJSON.len <= fcfg.MaxRawJSONBytes

----------------------------------------------------------------------------
(* Pruning the audit table to its latest records *)

\* C36: after DeleteAuditRecordsKeepLatest(n) has returned, exactly n
\* records remain when more than n existed, none of them older (by
\* created_at) than a deleted one, and nothing is deleted when at most n
\* existed.
C36_KeepLatestKeepsTheLatest ==
    aresult >= 0 =>
        IF Cardinality(audit0) > akeep
        THEN /\ Cardinality(audit) = akeep
             /\ audit \subseteq audit0
             /\ \A r \in audit, q \in audit0 \ audit : r.created_at >= q.created_at
        ELSE audit = audit0

----------------------------------------------------------------------------
(* The exit of a stopped tailer and its successor *)

\* C37: when a tailer goroutine exits while the registry entry of its
\* workload belongs to a tailer registered later, the exit neither removes
\* that entry nor cancels the context of the later tailer.
C37_ExitReleasesOwnRegistrationOnly ==
    [][ \A g \in DOMAIN gor :
          LET w == gor[g].id IN
          (gor[g].pc # "exit" /\ gor'[g].pc = "exit"
             /\ tailers[w] # 0 /\ tailers[w] # g) =>
                /\ tailers'[w] = tailers[w]
                /\ gor'[tailers[w]].cancelled = gor[tailers[w]].cancelled
      ]_vars

----------------------------------------------------------------------------
(* The end of the context by the expiry of its deadline *)

\* C38: when the context ended by the expiry of its deadline and no write
\* and no retention task has failed, the Run of each pipeline returns no
\* error, and Wait returns nil.
C38_DeadlineIsNotAnError ==
    ctxErr = "deadline" =>
        /\ sfaults = 0 => sresult \in {"none", "nil"}
        /\ lfaults = 0 => lresult \in {"none", "nil"}
        /\ rfaults = 0 => rrun \in {"none", "nil"}
        /\ (\A g \in DOMAIN gos : gos[g].err # ErrOf(gos[g].p)) =>
              mwait \in {"none", "nil"}

----------------------------------------------------------------------------
(* The channels of the Stats Sampler *)

\* a value is sent on the channel in this step
SentOn(ch, chNext) == Len(chNext.q) > Len(ch.q)

\* C39: no value is sent on a closed channel of the sampler and no channel
\* is closed twice; jobs is closed by the goroutine that enqueues, which
\* enqueues nothing afterwards, and results is closed only after every
\* worker has exited.
C39_ChannelsClosedOnceAfterLastSend ==
    [][ /\ SentOn(jobs, jobs') => ~jobs.closed /\ smain = "enqueue"
        /\ SentOn(results, results') => ~results.closed
        /\ SMainCancelled => ~jobs.closed
        /\ SWorkersDone => ~results.closed /\ jobs.closed
        /\ jobs.closed => jobs'.closed /\ smain' \notin {"list", "enqueue", "loop"}
        /\ results.closed => results'.closed
        /\ results'.closed => swork'.exited = scfg.Workers /\ swork' = swork
      ]_vars

\* C39 witness: both channels are closed, every worker has exited, one of
\* them after it had sent a sample that the store holds, and a job was
\* still queued when jobs was closed.
C39_Witness ==
    /\ jobs.closed /\ results.closed
    /\ jobs.q # <<>>
    /\ swork.exited = scfg.Workers
    /\ sstore # <<>>

----------------------------------------------------------------------------
(* The worker pool of a retention pass *)

\* the workers the pass may use under the setting w: the setting, or the
\* default when the setting is not positive, and never more than the tasks
WorkersAllowed(w) ==
    LET v == IF w <= 0 THEN DefaultRetentionWorkers ELSE w
    IN  IF v > 4 THEN 4 ELSE v

\* min(max(w, 1), 4)
WorkersClaimed(w) ==
    LET v == IF w < 1 THEN 1 ELSE w
    IN  IF v > 4 THEN 4 ELSE v

\* what holds of the pool of a pass at every moment, for a bound on the
\* tasks running concurrently: a task runs on one worker at a time and is
\* finished at most once, the tasks not yet sent have not been run, the
\* errors reported fit the capacity of errs (one per task), a pass that
\* returned leaves no worker behind and has finished every task it sent,
\* and while the pass has not returned one of its goroutines can step
PoolIsSound(bound) ==
    /\ Cardinality(rwork.jobs) <= bound
    /\ \A t \in 1..NumTasks :
         /\ rtask[t].runs <= 1
         /\ t \in rwork.jobs => (t < rnext /\ rtask[t].runs = 0)
         /\ t >= rnext => (rtask[t] = NoTaskRun[t] /\ t \notin rwork.jobs)
         /\ (t < rnext /\ t \notin rwork.jobs) => rtask[t].runs = 1
    /\ Len(rerrs) <= NumTasks
    /\ \A i, j \in DOMAIN rerrs : rerrs[i] = rerrs[j] => i = j
    /\ rmain = "returned" =>
         /\ rwork.jobs = {} /\ rwork.idle = 0
         /\ \A t \in 1..NumTasks : t < rnext => rtask[t].runs = 1
    /\ rmain # "returned" => ENABLED PassSteps

\* no task is sent once jobs is closed, no error once errs is closed
NoSendOnClosed ==
    /\ rmain # "dispatch" => (rnext' = rnext \/ RTick)
    /\ rmain = "returned" => (rerrs' = rerrs \/ RTick)

\* C40 (as amended): under every workers setting w, not positive or above
\* 4 included, and whichever tasks fail and whenever the pass is
\* cancelled: at most min(w, 4) tasks run concurrently, with the default 2
\* in the place of a w that is not positive; every task sent to the
\* workers is run exactly once; the errors fit the buffer of errs, so no
\* worker blocks reporting one; nothing is sent on jobs or errs once
\* closed; the pass never deadlocks and always returns.
C40_PassPoolBoundedAndTerminates ==
    /\ [](PoolIsSound(WorkersAllowed(rworkers)))
    /\ [][NoSendOnClosed]_vars
    /\ (rmain # "returned") ~> (rmain = "returned")

\* a pass configured with 9 workers has its four tasks running at once; a
\* pass configured with 0 workers has two
C40_Witness ==
    /\ rworkers = 9 /\ Cardinality(rwork.jobs) = 4

\* C40 as stated: the bound is min(max(w, 1), 4), so a setting that is not
\* positive allows a single task at a time
C40_AsStated ==
    PoolIsSound(WorkersClaimed(rworkers))

----------------------------------------------------------------------------
(* Time-triggered flush of the two writer loops *)

\* the step is an insert issued by the flush-ticker case of a writer whose
\* history of inserts is issued
TickInsert(issued, issuedNext) ==
    /\ Len(issuedNext) = Len(issued) + 1
    /\ issuedNext[Len(issuedNext)].case = "tick"

\* the stats writer's tick insert carries the whole buffer in one call
STickWritesAll ==
    TickInsert(sissued, sissued') =>
        /\ sissued'[Len(sissued')].n = Len(sbuf)
        /\ sbuf' = <<>>
        /\ \/ sstore' = Append(sstore, sbuf)
           \/ sstore' = sstore /\ sfaults' = sfaults + 1

\* the log writer's tick insert carries the whole buffer in one call
LTickWritesAll ==
    TickInsert(lissued, lissued') =>
        /\ lissued'[Len(lissued')].n = Len(lbuf)
        /\ lbuf' = <<>>
        /\ \/ lstore' = lstore \cup {lbuf[i] : i \in DOMAIN lbuf}
           \/ lstore' = lstore /\ lfaults' = lfaults + 1

\* C16: in both writer loops a flush tick handled while the buffer holds at
\* least one record writes the whole buffer in one insert and leaves the
\* buffer empty: while a writer runs with a record buffered its flush tick is
\* a flush of that buffer, so no record stays buffered across two flush ticks
C16_TickFlushesWholeBuffer ==
    /\ []((swriter.pc = "run" /\ sbuf # <<>>) => ENABLED SWriterTick)
    /\ []((lwriter.pc = "run" /\ lbuf # <<>>) => ENABLED LWriterTick)
    /\ [][STickWritesAll /\ LTickWritesAll]_vars

\* a tick flushed a buffer of fewer than batch_size records into the store,
\* in the stats writer
C16_Witness ==
    /\ sissued # <<>>
    /\ sissued[Len(sissued)] = [n |-> 1, case |-> "tick"]
    /\ scfg.BatchSize = 2
    /\ sbuf = <<>> /\ Len(sstore) = 1 /\ Len(sstore[1]) = 1
    /\ swriter.pc = "run"

----------------------------------------------------------------------------
(* The waits of the pipelines and the cancellation signal *)

\* C25: once ctx is cancelled, every goroutine that is in one of the waits
\* of the pipelines has the step of that wait's ctx.Done case: the sampler's
\* ticker wait, its sends on jobs and results, its workers' receive, the two
\* writers' select (queue receive and flush timer), the event loop's stream
\* wait and its reconnect back-off, the retention dispatch, the retention
\* tasks' loop with its idle sleep, and the retention ticker wait.
C25_WaitsSelectOnCancellation ==
    /\ (sctxDone /\ smain = "loop") => ENABLED SMainCancelled
    /\ (sctxDone /\ smain = "enqueue") => ENABLED SEnqueueCancelled
    /\ (sctxDone /\ swork.idle > 0) => ENABLED SWorkerExit
    /\ \A b \in swork.busy :
          (sctxDone /\ b.pc = "send") => ENABLED SWorkerSendCancelled(b)
    /\ (sctxDone /\ swriter.pc = "run") => ENABLED SWriterCancelled
    /\ (lctxDone /\ lwriter.pc = "run") => ENABLED LWriterCancelled
    /\ (lctxDone /\ lmain \in {"events", "backoff"}) => ENABLED LEventsCancelled
    /\ (rctxDone /\ rmain = "dispatch" /\ rnext <= NumTasks)
          => ENABLED RDispatchCancelled
    /\ \A t \in rwork.jobs : rctxDone => ENABLED RJobStep(t)
    /\ (rctxDone /\ rmain = "returned" /\ rrun = "none" /\ ~PassFatal(rresult))
          => ENABLED RRunCancelled

----------------------------------------------------------------------------
(* Properties of the pipelines under cancellation *)

\* C12: a Run that has returned returned nil unless a store error ended
\* its writer (Stats Sampler, Log Collector) or a storage call of a
\* retention task failed, wherever the cancellation arrived; and Wait
\* returns nil when no supervised Run returned a non-cancellation error.
C12_CancellationIsNotAnError ==
    /\ (smain = "returned" /\ swriter.err # "insert") => sresult = "nil"
    /\ (lmain = "returned" /\ lwriter.err # "insert") => lresult = "nil"
    /\ (rrun # "none" /\ rfaults = 0) => rrun = "nil"
    /\ (mwait # "none" /\ Failed = {}) => mwait = "nil"

\* C12 witness: the Stats Sampler was cancelled while samples were on
\* their way, the writer's insert returned context.Canceled, and Run
\* returned nil.
C12_Witness ==
    /\ smain = "returned" /\ sresult = "nil"
    /\ swriter.err = "canceled" /\ sfaults > 0
    /\ ssnap # {}

\* every goroutine of the Stats Sampler has returned
StatsAllExited ==
    smain = "returned" /\ swork.exited = scfg.Workers /\ swriter.pc = "done"

\* every goroutine of the Log Collector has returned
LogsAllExited ==
    lmain = "returned" /\ lwriter.pc = "done" /\ \A g \in DOMAIN gor : ~Active(g)

\* every goroutine of the Retention Enforcer has returned
RetentionAllExited ==
    rrun # "none" /\ rwork.idle = 0 /\ rwork.jobs = {}

\* every supervised goroutine has returned and Wait has returned
ManagerAllExited ==
    mwait # "none" /\ \A g \in DOMAIN gos : gos[g].pc = "done"

\* C13: once the context is cancelled for the pipelines and the Manager,
\* every goroutine of the Stats Sampler, the Log Collector and the
\* Retention Enforcer eventually returns, the three Run calls return,
\* every supervised goroutine returns and Wait returns.
C13_AllExitAfterCancel ==
    (sctxDone /\ lctxDone /\ rctxDone /\ mctxDone)
        ~> (StatsAllExited /\ LogsAllExited /\ RetentionAllExited /\ ManagerAllExited)

\* C13 witness: the Stats Sampler was cancelled after its last listed tick
\* with a full results channel, and every goroutine has returned.
C13_Witness ==
    /\ StatsAllExited /\ sctxDone
    /\ Len(results.q) = scfg.QueueSize
    /\ Cardinality(ssnap) = scfg.QueueSize
    /\ stick = MaxTicks

====
